---------------------------- MODULE Spec2Model ----------------------------
(***************************************************************************)
(* Light-client request/response core, the vote collector, the built-in   *)
(* contracts, the IPFS handler and the Ethash gas limit of parity.         *)
(*                                                                         *)
(*   - ethcore/light/src/types/request/mod.rs : Field, Output, the eight   *)
(*     request kinds with check_outputs / note_outputs / fill / complete   *)
(*     and the responses' fill_outputs;                                    *)
(*   - the request builder and the dispatch of a batch (the builder        *)
(*     module itself is not part of the sources at hand: it is modelled    *)
(*     from the specification, sections 4.3, 5 and 6);                     *)
(*   - ethcore/src/engines/vote_collector.rs : StepCollector and           *)
(*     VoteCollector.                                                      *)
(*                                                                         *)
(* The specifications share the variables; each keeps the variables of     *)
(* the other parts at their idle value:                                    *)
(*   SpecReq      one request, the pure operations applied to it;          *)
(*   SpecBatch    a batch built by append and then dispatched;             *)
(*   SpecVote     a vote collector under vote / throw_out_old /            *)
(*                seal_signatures;                                         *)
(*   SpecVoteOnly a vote collector under vote calls alone;                 *)
(*   SpecLock     threads calling one vote collector, a step per           *)
(*                acquisition and release of its lock;                     *)
(*   SpecCodec    one value written by its encoder, or an item received,   *)
(*                and read by the decoder of its type;                     *)
(*   SpecVerify   the verifiers of on_demand/request.rs, each applied to a  *)
(*                request and a response;                                  *)
(*   SpecCancel   pending batches whose receivers are awaited or dropped;  *)
(*   SpecVoteSeal a vote collector under vote / seal_signatures /          *)
(*                is_old_or_known, without direct throw_out_old calls;     *)
(*   SpecLockAll  SpecLock with every operation of the collector;          *)
(*   SpecBuiltin  the pricing of the built-in contracts;                   *)
(*   SpecModexp   the modexp built-in executed on an input;                *)
(*   SpecIpfs     the IPFS handler writing one response to its transport;  *)
(*   SpecEthash   a header populated from a parent and then checked        *)
(*                against it.                                              *)
(***************************************************************************)
EXTENDS Integers, Sequences, FiniteSets, TLC

VARIABLES
    \* ---- SpecReq: one request and the last operation applied to it
    rq,          \* the request (an incomplete request of one of the 8 kinds)
    rqOp,        \* "init" | "check" | "fill" | "complete" | "outputs"
    rqPrev,      \* the request before the last fill
    rqOracle,    \* the oracle the last fill was run with
    rqAccept,    \* the visitor the last check_outputs was run with
    rqResult,    \* the result of the last check_outputs / complete
    rs,          \* a response
    rsEmitted,   \* what the last fill_outputs of rs emitted, in order
    \* ---- SpecBatch: the builder and the dispatched batch
    requests,    \* the batch: sequence of incomplete requests
    built,       \* the requests as they were when appended
    outputKinds, \* per request, the output kinds it declared (idx -> kind)
    outputs,     \* delivered outputs: <<req, idx>> -> Output
    phase,       \* "building" | "dispatching" | "delivered" | "cancelled"
    sent,        \* per request: the complete request sent, or Nil
    answered,    \* set of request indices whose response was folded in
    lastPush,    \* outcome of the last append
    awaited,     \* the caller's end of the batch's channel: nothing yet,
                 \* awaiting, what was sent, or what the caller observed
    \* ---- SpecVote: the vote collector
    votes,       \* round -> StepCollector (a function on the kept rounds)
    lastCall,    \* the last call: its arguments, what it returned, and the
                 \* round map before it
    submitted,   \* history of vote calls: <<round, voter, fresh>>, fresh
                 \* when the message had not been seen in its round
    nVotes,      \* number of vote calls so far
    \* ---- SpecLock: threads calling the collector through its RwLock
    pc,          \* per thread: where it is in its call, with the arguments
    readers,     \* per thread: the shared guards it holds
    writers,     \* the threads holding the exclusive guard (at most one)
    writerPriority, \* whether a waiting writer keeps new readers out
    \* ---- SpecCodec: one value through the wire codec
    cdValue,     \* the value, with the type it is encoded and decoded as
    cdWire,      \* the RLP item written or received, or Nil
    cdResult,    \* what decoding the item returned, or Nil
    cdOp,        \* the last operation
    \* ---- SpecVerify: the verifiers of the responses
    vfCall,      \* the last call of a verifier or of a built-in: its
                 \* request, what it was given and what it returned
    \* ---- SpecIpfs: the handler of the IPFS API writing its response
    ipOut,       \* the bytes of the response (IpfsHandler.out)
    ipProgress,  \* how many of them were written (IpfsHandler.out_progress)
    ipTransport, \* the bytes the transport has accepted, in order
    ipNext,      \* what the handler returned last: "write" | "end"
    ipWritten    \* what the last transport.write was offered and returned

reqVars   == <<rq, rqOp, rqPrev, rqOracle, rqAccept, rqResult, rs, rsEmitted>>
batchVars == <<requests, built, outputKinds, outputs, phase, sent, answered, lastPush,
               awaited>>
voteVars  == <<votes, lastCall, submitted, nVotes>>
lockVars  == <<pc, readers, writers, writerPriority>>
codecVars == <<cdValue, cdWire, cdResult, cdOp>>
verifyVars == <<vfCall>>
ipfsVars  == <<ipOut, ipProgress, ipTransport, ipNext, ipWritten>>
vars      == <<reqVars, batchVars, voteVars, lockVars, codecVars, verifyVars, ipfsVars>>

Nil == [tag |-> "Nil"]

----------------------------------------------------------------------------
(* Bounds of the model *)

\* Longest batch; request indices of back-references range over 0..MaxReqs-1.
MaxReqs == 2
\* Number of distinct 32-byte hashes used as scalars and outputs.
NumHashes == 2
\* Numbers (u64) used as scalars and outputs range over 1..MaxNum.
MaxNum == 1

(* Program constants *)

\* Width of H256 in bytes.
HashLen == 32

----------------------------------------------------------------------------
(* Primitive values *)

\* Byte e (0 = least significant) of the number n.
RECURSIVE ByteAt(_, _)
ByteAt(n, e) == IF e = 0 THEN n % 256 ELSE ByteAt(n \div 256, e - 1)

\* H256::from(u64): the number as a big-endian 32-byte value; a u64 has
\* eight bytes, the 24 leading bytes are zero.
H256FromU64(n) ==
    [i \in 1..HashLen |-> IF HashLen - i < 8 THEN ByteAt(n, HashLen - i) ELSE 0]

\* The k-th opaque hash of the model.
HashOf(k) == [i \in 1..HashLen |-> IF i = 1 THEN 160 + k ELSE k]

Hashes  == {HashOf(k) : k \in 1..NumHashes}
Numbers == 1..MaxNum

\* enum OutputKind
OutputKind == {"Hash", "Number"}

\* enum Output { Hash(H256), Number(u64) }
OutputHash(h)   == [kind |-> "Hash", val |-> h]
OutputNumber(n) == [kind |-> "Number", val |-> n]
Outputs == {OutputHash(h) : h \in Hashes} \cup {OutputNumber(n) : n \in Numbers}

\* enum HashOrNumber { Hash(H256), Number(u64) } with its two From impls.
HashOrNumberFromHash(h)   == [tag |-> "Hash", val |-> h]
HashOrNumberFromNumber(n) == [tag |-> "Number", val |-> n]
HashOrNumbers ==
    {HashOrNumberFromHash(h) : h \in Hashes} \cup {HashOrNumberFromNumber(n) : n \in Numbers}

\* enum Field<T> { Scalar(T), BackReference(usize, usize) }
Scalar(v)           == [tag |-> "Scalar", val |-> v]
BackReference(r, i) == [tag |-> "BackReference", req |-> r, idx |-> i]
IsBackReference(f)  == f.tag = "BackReference"
IsScalar(f)         == f.tag = "Scalar"

\* Result<_, NoSuchOutput>; NoSuchOutput is a unit struct.
Ok(v)        == [ok |-> TRUE, val |-> v]
NoSuchOutput == [ok |-> FALSE, err |-> "NoSuchOutput"]
OkUnit       == Ok("unit")

\* Mutant of into_scalar: a back-reference unwraps to a default value.
into_scalar_or_default(f) ==
    IF f.tag = "Scalar" THEN Ok(f.val) ELSE Ok(H256FromU64(0))

\* Field::into_scalar
into_scalar(f) == IF f.tag = "Scalar" THEN Ok(f.val) ELSE NoSuchOutput

\* enum Kind, with the discriminant of each kind.
Kinds == {"Headers", "HeaderProof", "Receipts", "Body", "Account", "Storage",
          "Code", "Execution"}

----------------------------------------------------------------------------
(* The visitor of check_outputs and the oracle of fill.                    *)
(*                                                                         *)
(* A visitor f(req, idx, kind) -> Result is given as the set of triples    *)
(* <<req, idx, kind>> it answers Ok(()) to.  An oracle                     *)
(* (req, idx) -> Result<Output, NoSuchOutput> is given as a function on a  *)
(* set of pairs; it answers ResultErr(NoSuchOutput) outside of its domain.       *)

Visit(acc, r, i, kind) == IF <<r, i, kind>> \in acc THEN OkUnit ELSE NoSuchOutput

Ask(oracle, r, i) ==
    IF <<r, i>> \in DOMAIN oracle THEN oracle[<<r, i>>] ELSE NoSuchOutput


----------------------------------------------------------------------------
(* The eight request kinds: check_outputs, note_outputs, fill, complete.   *)
(* A request is a record whose field kind names its variant.               *)

\* Result of the closure-taking check `a.or_else(|_| b)`.
OrElse(a, b) == IF a.ok THEN a ELSE b

\* ---- header::Incomplete
header_check_outputs(req, acc) ==
    IF IsScalar(req.start) THEN OkUnit
    ELSE OrElse(Visit(acc, req.start.req, req.start.idx, "Hash"),
                Visit(acc, req.start.req, req.start.idx, "Number"))

header_note_outputs(req) == << >>

\* Mutant of header_fill: a Number output is coerced into a hash.
header_fill_coerce(req, oracle) ==
    IF IsBackReference(req.start)
    THEN LET res == Ask(oracle, req.start.req, req.start.idx) IN
         [req EXCEPT !.start =
            IF res.ok /\ res.val.kind = "Hash"
              THEN Scalar(HashOrNumberFromHash(res.val.val))
            ELSE IF res.ok /\ res.val.kind = "Number"
              THEN Scalar(HashOrNumberFromHash(H256FromU64(res.val.val)))
            ELSE BackReference(req.start.req, req.start.idx)]
    ELSE req

header_fill(req, oracle) ==
    IF IsBackReference(req.start)
    THEN LET res == Ask(oracle, req.start.req, req.start.idx) IN
         [req EXCEPT !.start =
            IF res.ok /\ res.val.kind = "Hash"
              THEN Scalar(HashOrNumberFromHash(res.val.val))
            ELSE IF res.ok /\ res.val.kind = "Number"
              THEN Scalar(HashOrNumberFromNumber(res.val.val))
            ELSE BackReference(req.start.req, req.start.idx)]
    ELSE req

header_complete(req) ==
    LET start == into_scalar(req.start) IN
    IF ~start.ok THEN NoSuchOutput
    ELSE Ok([kind |-> "Headers", start |-> start.val, skip |-> req.skip,
             max |-> req.max, reverse |-> req.reverse])

\* ---- header_proof::Incomplete
header_proof_check_outputs(req, acc) ==
    IF IsScalar(req.num) THEN OkUnit
    ELSE Visit(acc, req.num.req, req.num.idx, "Number")

\* Mutant of header_proof_note_outputs: the output is declared a Number.
header_proof_note_outputs_number(req) == << <<0, "Number">> >>

header_proof_note_outputs(req) == << <<0, "Hash">> >>

header_proof_fill(req, oracle) ==
    IF IsBackReference(req.num)
    THEN LET res == Ask(oracle, req.num.req, req.num.idx) IN
         [req EXCEPT !.num =
            IF res.ok /\ res.val.kind = "Number" THEN Scalar(res.val.val)
            ELSE BackReference(req.num.req, req.num.idx)]
    ELSE req

header_proof_complete(req) ==
    LET num == into_scalar(req.num) IN
    IF ~num.ok THEN NoSuchOutput
    ELSE Ok([kind |-> "HeaderProof", num |-> num.val])

\* ---- block_receipts::Incomplete
block_receipts_check_outputs(req, acc) ==
    IF IsScalar(req.hash) THEN OkUnit
    ELSE Visit(acc, req.hash.req, req.hash.idx, "Hash")

block_receipts_note_outputs(req) == << >>

\* The match arm is Ok(Output::Number(hash)) => Field::Scalar(hash.into()):
\* the number is converted by H256::from(u64); every other answer of the
\* oracle, a Hash output included, leaves the back-reference.
block_receipts_fill(req, oracle) ==
    IF IsBackReference(req.hash)
    THEN LET res == Ask(oracle, req.hash.req, req.hash.idx) IN
         [req EXCEPT !.hash =
            IF res.ok /\ res.val.kind = "Number" THEN Scalar(H256FromU64(res.val.val))
            ELSE BackReference(req.hash.req, req.hash.idx)]
    ELSE req

block_receipts_complete(req) ==
    LET hash == into_scalar(req.hash) IN
    IF ~hash.ok THEN NoSuchOutput
    ELSE Ok([kind |-> "Receipts", hash |-> hash.val])

\* ---- block_body::Incomplete
\* Mutant of block_body_check_outputs: the back-reference is not visited.
block_body_check_outputs_unchecked(req, acc) == OkUnit

block_body_check_outputs(req, acc) ==
    IF IsScalar(req.hash) THEN OkUnit
    ELSE Visit(acc, req.hash.req, req.hash.idx, "Hash")

block_body_note_outputs(req) == << >>

\* One field filled the way every Field<H256> but the receipts' one is:
\* Ok(Output::Hash(h)) => Scalar(h), anything else => the back-reference.
FillHashField(f, oracle) ==
    IF IsBackReference(f)
    THEN LET res == Ask(oracle, f.req, f.idx) IN
         IF res.ok /\ res.val.kind = "Hash" THEN Scalar(res.val.val)
         ELSE BackReference(f.req, f.idx)
    ELSE f

block_body_fill(req, oracle) ==
    [req EXCEPT !.hash = FillHashField(req.hash, oracle)]

\* Mutant of block_body_complete: an unresolved hash is sent as zero.
block_body_complete_default(req) ==
    Ok([kind |-> "Body",
        hash |-> IF IsScalar(req.hash) THEN req.hash.val ELSE H256FromU64(0)])

block_body_complete(req) ==
    LET hash == into_scalar(req.hash) IN
    IF ~hash.ok THEN NoSuchOutput
    ELSE Ok([kind |-> "Body", hash |-> hash.val])

\* ---- account::Incomplete
\* Mutant of account_check_outputs: only block_hash is visited.
account_check_outputs_first_only(req, acc) ==
    IF IsBackReference(req.block_hash)
       /\ ~Visit(acc, req.block_hash.req, req.block_hash.idx, "Hash").ok
      THEN NoSuchOutput
    ELSE OkUnit

account_check_outputs(req, acc) ==
    IF IsBackReference(req.block_hash)
       /\ ~Visit(acc, req.block_hash.req, req.block_hash.idx, "Hash").ok
      THEN NoSuchOutput
    ELSE IF IsBackReference(req.address_hash)
       /\ ~Visit(acc, req.address_hash.req, req.address_hash.idx, "Hash").ok
      THEN NoSuchOutput
    ELSE OkUnit

account_note_outputs(req) == << <<0, "Hash">>, <<1, "Hash">> >>

\* Mutant of account_fill: only block_hash is filled.
account_fill_first_only(req, oracle) ==
    [req EXCEPT !.block_hash = FillHashField(req.block_hash, oracle)]

account_fill(req, oracle) ==
    [req EXCEPT !.block_hash = FillHashField(req.block_hash, oracle),
                !.address_hash = FillHashField(req.address_hash, oracle)]

account_complete(req) ==
    LET block_hash == into_scalar(req.block_hash)
        address_hash == into_scalar(req.address_hash) IN
    IF ~block_hash.ok \/ ~address_hash.ok THEN NoSuchOutput
    ELSE Ok([kind |-> "Account", block_hash |-> block_hash.val,
             address_hash |-> address_hash.val])

\* ---- storage::Incomplete
storage_check_outputs(req, acc) ==
    IF IsBackReference(req.block_hash)
       /\ ~Visit(acc, req.block_hash.req, req.block_hash.idx, "Hash").ok
      THEN NoSuchOutput
    ELSE IF IsBackReference(req.address_hash)
       /\ ~Visit(acc, req.address_hash.req, req.address_hash.idx, "Hash").ok
      THEN NoSuchOutput
    ELSE IF IsBackReference(req.key_hash)
       /\ ~Visit(acc, req.key_hash.req, req.key_hash.idx, "Hash").ok
      THEN NoSuchOutput
    ELSE OkUnit

storage_note_outputs(req) == << <<0, "Hash">> >>

\* Mutant of storage_fill: key_hash is filled from the reference of
\* address_hash.
storage_fill_key_from_address(req, oracle) ==
    [req EXCEPT !.block_hash = FillHashField(req.block_hash, oracle),
                !.address_hash = FillHashField(req.address_hash, oracle),
                !.key_hash = FillHashField(req.address_hash, oracle)]

storage_fill(req, oracle) ==
    [req EXCEPT !.block_hash = FillHashField(req.block_hash, oracle),
                !.address_hash = FillHashField(req.address_hash, oracle),
                !.key_hash = FillHashField(req.key_hash, oracle)]

storage_complete(req) ==
    LET block_hash == into_scalar(req.block_hash)
        address_hash == into_scalar(req.address_hash)
        key_hash == into_scalar(req.key_hash) IN
    IF ~block_hash.ok \/ ~address_hash.ok \/ ~key_hash.ok THEN NoSuchOutput
    ELSE Ok([kind |-> "Storage", block_hash |-> block_hash.val,
             address_hash |-> address_hash.val, key_hash |-> key_hash.val])

\* ---- contract_code::Incomplete
contract_code_check_outputs(req, acc) ==
    IF IsBackReference(req.block_hash)
       /\ ~Visit(acc, req.block_hash.req, req.block_hash.idx, "Hash").ok
      THEN NoSuchOutput
    ELSE IF IsBackReference(req.code_hash)
       /\ ~Visit(acc, req.code_hash.req, req.code_hash.idx, "Hash").ok
      THEN NoSuchOutput
    ELSE OkUnit

contract_code_note_outputs(req) == << >>

contract_code_fill(req, oracle) ==
    [req EXCEPT !.block_hash = FillHashField(req.block_hash, oracle),
                !.code_hash = FillHashField(req.code_hash, oracle)]

contract_code_complete(req) ==
    LET block_hash == into_scalar(req.block_hash)
        code_hash == into_scalar(req.code_hash) IN
    IF ~block_hash.ok \/ ~code_hash.ok THEN NoSuchOutput
    ELSE Ok([kind |-> "Code", block_hash |-> block_hash.val,
             code_hash |-> code_hash.val])

\* ---- execution::Incomplete
execution_check_outputs(req, acc) ==
    IF IsBackReference(req.block_hash)
       /\ ~Visit(acc, req.block_hash.req, req.block_hash.idx, "Hash").ok
      THEN NoSuchOutput
    ELSE OkUnit

execution_note_outputs(req) == << >>

execution_fill(req, oracle) ==
    [req EXCEPT !.block_hash = FillHashField(req.block_hash, oracle)]

execution_complete(req) ==
    LET block_hash == into_scalar(req.block_hash) IN
    IF ~block_hash.ok THEN NoSuchOutput
    ELSE Ok([kind |-> "Execution", block_hash |-> block_hash.val,
             from |-> req.from, action |-> req.action, gas |-> req.gas,
             gas_price |-> req.gas_price, value |-> req.value,
             data |-> req.data])

\* ---- impl IncompleteRequest for Request: dispatch on the variant
check_outputs(req, acc) ==
    CASE req.kind = "Headers"     -> header_check_outputs(req, acc)
      [] req.kind = "HeaderProof" -> header_proof_check_outputs(req, acc)
      [] req.kind = "Receipts"    -> block_receipts_check_outputs(req, acc)
      [] req.kind = "Body"        -> block_body_check_outputs(req, acc)
      [] req.kind = "Account"     -> account_check_outputs(req, acc)
      [] req.kind = "Storage"     -> storage_check_outputs(req, acc)
      [] req.kind = "Code"        -> contract_code_check_outputs(req, acc)
      [] req.kind = "Execution"   -> execution_check_outputs(req, acc)

note_outputs(req) ==
    CASE req.kind = "Headers"     -> header_note_outputs(req)
      [] req.kind = "HeaderProof" -> header_proof_note_outputs(req)
      [] req.kind = "Receipts"    -> block_receipts_note_outputs(req)
      [] req.kind = "Body"        -> block_body_note_outputs(req)
      [] req.kind = "Account"     -> account_note_outputs(req)
      [] req.kind = "Storage"     -> storage_note_outputs(req)
      [] req.kind = "Code"        -> contract_code_note_outputs(req)
      [] req.kind = "Execution"   -> execution_note_outputs(req)

fill(req, oracle) ==
    CASE req.kind = "Headers"     -> header_fill(req, oracle)
      [] req.kind = "HeaderProof" -> header_proof_fill(req, oracle)
      [] req.kind = "Receipts"    -> block_receipts_fill(req, oracle)
      [] req.kind = "Body"        -> block_body_fill(req, oracle)
      [] req.kind = "Account"     -> account_fill(req, oracle)
      [] req.kind = "Storage"     -> storage_fill(req, oracle)
      [] req.kind = "Code"        -> contract_code_fill(req, oracle)
      [] req.kind = "Execution"   -> execution_fill(req, oracle)

complete(req) ==
    CASE req.kind = "Headers"     -> header_complete(req)
      [] req.kind = "HeaderProof" -> header_proof_complete(req)
      [] req.kind = "Receipts"    -> block_receipts_complete(req)
      [] req.kind = "Body"        -> block_body_complete(req)
      [] req.kind = "Account"     -> account_complete(req)
      [] req.kind = "Storage"     -> storage_complete(req)
      [] req.kind = "Code"        -> contract_code_complete(req)
      [] req.kind = "Execution"   -> execution_complete(req)

----------------------------------------------------------------------------
(* Responses and their reusable outputs.                                   *)
(* fill_outputs(resp) is the sequence of the calls f(idx, output) made.    *)

header_fill_outputs(res)         == << >>
header_proof_fill_outputs(res)   == << <<0, OutputHash(res.hash)>> >>
block_receipts_fill_outputs(res) == << >>
block_body_fill_outputs(res)     == << >>
\* Mutant of account_fill_outputs: both outputs are written to slot 0.
account_fill_outputs_same_slot(res) ==
    << <<0, OutputHash(res.code_hash)>>, <<0, OutputHash(res.storage_root)>> >>

account_fill_outputs(res) ==
    << <<0, OutputHash(res.code_hash)>>, <<1, OutputHash(res.storage_root)>> >>
storage_fill_outputs(res)        == << <<0, OutputHash(res.value)>> >>
contract_code_fill_outputs(res)  == << >>
execution_fill_outputs(res)      == << >>

\* Response::fill_outputs
fill_outputs(res) ==
    CASE res.kind = "Headers"     -> header_fill_outputs(res)
      [] res.kind = "HeaderProof" -> header_proof_fill_outputs(res)
      [] res.kind = "Receipts"    -> block_receipts_fill_outputs(res)
      [] res.kind = "Body"        -> block_body_fill_outputs(res)
      [] res.kind = "Account"     -> account_fill_outputs(res)
      [] res.kind = "Storage"     -> storage_fill_outputs(res)
      [] res.kind = "Code"        -> contract_code_fill_outputs(res)
      [] res.kind = "Execution"   -> execution_fill_outputs(res)

----------------------------------------------------------------------------
(* The bounded sets the inputs are drawn from.                             *)

\* Output indices named by back-references: 0 and 1 are the indices some
\* kind declares (account declares both), 2 is declared by none.
OutIdxs == {0, 1, 2}

ReqIdxs == 0..(MaxReqs - 1)

BackReferences == {BackReference(r, i) : r \in ReqIdxs, i \in OutIdxs}

\* Inputs that are no Field<T>: opaque values, two of some to tell them apart.
Addresses == {"addr_a"}
Actions   == {"Create", "Call"}

\* The requests of the eight kinds whose fields are a scalar over the hashes
\* hs and the numbers ns, or one of the back-references refs.
RequestsOver(hs, ns, refs) ==
    LET HashFields         == {Scalar(h) : h \in hs} \cup refs
        NumberFields       == {Scalar(n) : n \in ns} \cup refs
        HashOrNumberFields ==
            {Scalar(HashOrNumberFromHash(h)) : h \in hs}
            \cup {Scalar(HashOrNumberFromNumber(n)) : n \in ns} \cup refs
    IN  [kind : {"Headers"}, start : HashOrNumberFields, skip : {0, 1},
         max : {1}, reverse : BOOLEAN]
        \cup [kind : {"HeaderProof"}, num : NumberFields]
        \cup [kind : {"Receipts"}, hash : HashFields]
        \cup [kind : {"Body"}, hash : HashFields]
        \cup [kind : {"Account"}, block_hash : HashFields,
              address_hash : HashFields]
        \cup [kind : {"Storage"}, block_hash : HashFields,
              address_hash : HashFields, key_hash : HashFields]
        \cup [kind : {"Code"}, block_hash : HashFields, code_hash : HashFields]
        \cup [kind : {"Execution"}, block_hash : HashFields, from : Addresses,
              action : Actions, gas : {21000}, gas_price : {0}, value : {0, 1},
              data : {<< >>}]

\* Every request of the model.
AllRequests == RequestsOver(Hashes, Numbers, BackReferences)

\* The requests the operations are applied to one at a time: three distinct
\* back-references let the fields of a request share a reference or not.
SingleRequests ==
    RequestsOver(Hashes, Numbers,
                 {BackReference(0, 0), BackReference(0, 1), BackReference(1, 0)})

\* Responses; their payloads other than the reusable outputs are opaque.
AllResponses ==
    [kind : {"Headers"}, headers : {<< >>}]
    \cup [kind : {"HeaderProof"}, proof : {<< >>}, hash : Hashes, td : {0}]
    \cup [kind : {"Receipts"}, receipts : {<< >>}]
    \cup [kind : {"Body"}, body : {<< >>}]
    \cup [kind : {"Account"}, proof : {<< >>}, nonce : {0}, balance : {0},
          code_hash : Hashes, storage_root : Hashes]
    \cup [kind : {"Storage"}, proof : {<< >>}, value : Hashes]
    \cup [kind : {"Code"}, code : {<< >>}]
    \cup [kind : {"Execution"}, items : {<< >>}]

\* The Field<T> inputs of a request, by name.
FieldNames(req) ==
    CASE req.kind = "Headers"     -> {"start"}
      [] req.kind = "HeaderProof" -> {"num"}
      [] req.kind = "Receipts"    -> {"hash"}
      [] req.kind = "Body"        -> {"hash"}
      [] req.kind = "Account"     -> {"block_hash", "address_hash"}
      [] req.kind = "Storage"     -> {"block_hash", "address_hash", "key_hash"}
      [] req.kind = "Code"        -> {"block_hash", "code_hash"}
      [] req.kind = "Execution"   -> {"block_hash"}

\* The back-references <<req, idx>> a request still holds.
RefsOf(req) ==
    {<<req[n].req, req[n].idx>> : n \in {m \in FieldNames(req) : IsBackReference(req[m])}}

\* What an oracle may answer.
OracleAnswers == {Ok(o) : o \in Outputs} \cup {NoSuchOutput}

----------------------------------------------------------------------------
(* SpecReq: the operations of IncompleteRequest applied to one request.    *)

ReqIdle ==
    /\ rq = Nil /\ rqOp = "idle" /\ rqPrev = Nil /\ rqOracle = << >>
    /\ rqAccept = {} /\ rqResult = Nil /\ rs = Nil /\ rsEmitted = << >>

ReqInit ==
    /\ rq \in SingleRequests
    /\ rqOp = "init" /\ rqPrev = Nil /\ rqOracle = << >>
    /\ rqAccept = {} /\ rqResult = Nil /\ rs = Nil /\ rsEmitted = << >>

\* check_outputs(f), for every visitor f over the request's back-references.
CheckReq ==
    /\ \E acc \in SUBSET {<<p[1], p[2], k>> : p \in RefsOf(rq), k \in OutputKind} :
            /\ rqAccept' = acc
            /\ rqResult' = check_outputs(rq, acc)
            /\ rqOp' = "check"
            /\ rqPrev' = Nil /\ rqOracle' = << >> /\ rs' = Nil /\ rsEmitted' = << >>
            /\ UNCHANGED rq
    /\ UNCHANGED <<batchVars, voteVars, lockVars, codecVars, verifyVars, ipfsVars>>

\* fill(oracle), for every oracle over the request's back-references.
FillReq ==
    /\ \E oracle \in [RefsOf(rq) -> OracleAnswers] :
            /\ rqPrev' = rq
            /\ rqOracle' = oracle
            /\ rq' = fill(rq, oracle)
            /\ rqOp' = "fill"
            /\ rqAccept' = {} /\ rqResult' = Nil /\ rs' = Nil /\ rsEmitted' = << >>
    /\ UNCHANGED <<batchVars, voteVars, lockVars, codecVars, verifyVars, ipfsVars>>

\* complete(); the request itself is consumed, it is kept here to compare.
CompleteReq ==
    /\ rqResult' = complete(rq)
    /\ rqOp' = "complete"
    /\ rqPrev' = Nil /\ rqOracle' = << >> /\ rqAccept' = {}
    /\ rs' = Nil /\ rsEmitted' = << >>
    /\ UNCHANGED rq
    /\ UNCHANGED <<batchVars, voteVars, lockVars, codecVars, verifyVars, ipfsVars>>

\* fill_outputs of a response of the request's kind.
OutputsReq ==
    /\ \E res \in AllResponses :
            /\ res.kind = rq.kind
            /\ rs' = res
            /\ rsEmitted' = fill_outputs(res)
            /\ rqOp' = "outputs"
            /\ rqPrev' = Nil /\ rqOracle' = << >> /\ rqAccept' = {} /\ rqResult' = Nil
            /\ UNCHANGED rq
    /\ UNCHANGED <<batchVars, voteVars, lockVars, codecVars, verifyVars, ipfsVars>>

ReqNext == CheckReq \/ FillReq \/ CompleteReq \/ OutputsReq

----------------------------------------------------------------------------
(* SpecBatch: the batch builder and the dispatch of the finished batch.    *)

\* The requests the builder is offered: every kind, every shape of
\* back-reference, one scalar value per field.
BuilderRequests ==
    {r \in RequestsOver({HashOf(1)}, {1}, BackReferences) :
        /\ r.kind = "Headers" => (r.skip = 0 /\ r.reverse = FALSE)
        /\ r.kind = "Execution" => (r.action = "Call" /\ r.value = 0)}

\* The row of outputs[] a request declares: output index -> kind (a later
\* note of the same index replaces an earlier one).
DeclaredRow(req) ==
    LET noted == note_outputs(req)
        last(i) == CHOOSE j \in DOMAIN noted :
                      /\ noted[j][1] = i
                      /\ \A l \in DOMAIN noted : noted[l][1] = i => l <= j
    IN  [i \in {noted[j][1] : j \in DOMAIN noted} |-> noted[last(i)][2]]

\* The visitor of the builder: outputs[r][i] == kind for an earlier request r.
BuilderVisitor ==
    {t \in (0..(Len(requests) - 1)) \X OutIdxs \X OutputKind :
        /\ t[2] \in DOMAIN outputKinds[t[1] + 1]
        /\ outputKinds[t[1] + 1][t[2]] = t[3]}

\* The caller's end of the channel (futures::sync::oneshot): nothing sent
\* yet, the value sent, and what the caller's future resolved to.
Awaiting    == [tag |-> "Awaiting"]
Sent(v)     == [tag |-> "Sent", value |-> v]
Observed(r) == [tag |-> "Observed", result |-> r]

\* oneshot::Canceled
Canceled == [tag |-> "Canceled"]

\* errors::internal
errors_internal(error, data) ==
    [ok |-> FALSE, err |-> [code |-> "INTERNAL_ERROR", error |-> error, data |-> data]]

\* err_premature_cancel resolving to no header.
err_premature_cancel_as_none(cancel) == Ok([some |-> FALSE])

\* err_premature_cancel
err_premature_cancel(cancel) ==
    errors_internal("on-demand sender prematurely cancelled", "")

BatchIdle ==
    /\ requests = << >> /\ built = << >> /\ outputKinds = << >>
    /\ outputs = << >> /\ phase = "idle" /\ sent = << >> /\ answered = {}
    /\ lastPush = Nil /\ awaited = Nil

BatchInit ==
    /\ requests = << >> /\ built = << >> /\ outputKinds = << >>
    /\ outputs = << >> /\ phase = "building" /\ sent = << >> /\ answered = {}
    /\ lastPush = Nil /\ awaited = Nil

\* append(request) noting the outputs of the request before it is checked.
Push_noting_before_check ==
    /\ phase = "building"
    /\ Len(requests) < MaxReqs
    /\ lastPush # Nil => lastPush.result.ok
    /\ \E req \in BuilderRequests :
        LET res == check_outputs(req, BuilderVisitor) IN
        /\ outputKinds' = Append(outputKinds, DeclaredRow(req))
        /\ lastPush' = [req |-> req, at |-> Len(requests), result |-> res]
        /\ IF res.ok
           THEN /\ requests' = Append(requests, req)
                /\ built' = Append(built, req)
           ELSE UNCHANGED <<requests, built>>
        /\ UNCHANGED <<outputs, phase, sent, answered, awaited>>
    /\ UNCHANGED <<reqVars, voteVars, lockVars, codecVars, verifyVars, ipfsVars>>

\* append(request): check_outputs against the declared outputs, then append
\* the request and record what note_outputs declares.
Push ==
    /\ phase = "building"
    /\ Len(requests) < MaxReqs
    /\ lastPush # Nil => lastPush.result.ok
    /\ \E req \in BuilderRequests :
        LET res == check_outputs(req, BuilderVisitor) IN
        IF res.ok
        THEN /\ requests' = Append(requests, req)
             /\ built' = Append(built, req)
             /\ outputKinds' = Append(outputKinds, DeclaredRow(req))
             /\ lastPush' = [req |-> req, at |-> Len(requests), result |-> res]
             /\ UNCHANGED <<outputs, phase, sent, answered, awaited>>
        ELSE /\ lastPush' = [req |-> req, at |-> Len(requests), result |-> res]
             /\ UNCHANGED <<requests, built, outputKinds, outputs, phase, sent,
                            answered, awaited>>
    /\ UNCHANGED <<reqVars, voteVars, lockVars, codecVars, verifyVars, ipfsVars>>

\* The caller takes the error of a failed append; the builder is as before.
PushFailed ==
    /\ phase = "building"
    /\ lastPush # Nil
    /\ ~lastPush.result.ok
    /\ lastPush' = Nil
    /\ UNCHANGED <<requests, built, outputKinds, outputs, phase, sent, answered,
                   awaited>>
    /\ UNCHANGED <<reqVars, voteVars, lockVars, codecVars, verifyVars, ipfsVars>>

\* finish(): the batch is handed to the dispatcher, and the caller holds
\* the receiving end of the channel the responses will come through.
Finish ==
    /\ phase = "building"
    /\ Len(requests) > 0
    /\ phase' = "dispatching"
    /\ sent' = [k \in DOMAIN requests |-> Nil]
    /\ lastPush' = Nil
    /\ awaited' = Awaiting
    /\ UNCHANGED <<requests, built, outputKinds, outputs, answered>>
    /\ UNCHANGED <<reqVars, voteVars, lockVars, codecVars, verifyVars, ipfsVars>>

\* The oracle fill is run with after responses were folded in.
OutputOracle(outs) == [p \in DOMAIN outs |-> Ok(outs[p])]

\* The request at index k is completed and sent; requests are sent in turn.
Dispatch ==
    /\ phase = "dispatching"
    /\ \E k \in 0..(Len(requests) - 1) :
        /\ sent[k + 1] = Nil
        /\ \A j \in 0..(k - 1) : sent[j + 1] # Nil
        /\ complete(requests[k + 1]).ok
        /\ sent' = [sent EXCEPT ![k + 1] = complete(requests[k + 1]).val]
    /\ UNCHANGED <<requests, built, outputKinds, outputs, phase, answered, lastPush,
                   awaited>>
    /\ UNCHANGED <<reqVars, voteVars, lockVars, codecVars, verifyVars, ipfsVars>>

\* The outputs of a response, written into the delivered outputs.
FoldOutputs(outs, k, res) ==
    LET emitted == fill_outputs(res)
        idxs == {emitted[j][1] : j \in DOMAIN emitted}
        last(i) == CHOOSE j \in DOMAIN emitted :
                      /\ emitted[j][1] = i
                      /\ \A l \in DOMAIN emitted : emitted[l][1] = i => l <= j
    IN  [p \in DOMAIN outs \cup {<<k, i>> : i \in idxs} |->
            IF p[1] = k /\ p[2] \in idxs THEN emitted[last(p[2])][2] ELSE outs[p]]

\* fold_outputs(batch, k, response): the verified response to the sent
\* request k is folded in and every later request is filled from the outputs.
SupplyResponse ==
    /\ phase = "dispatching"
    /\ \E k \in 0..(Len(requests) - 1) :
        /\ sent[k + 1] # Nil
        /\ k \notin answered
        /\ \E res \in AllResponses :
            /\ res.kind = requests[k + 1].kind
            /\ outputs' = FoldOutputs(outputs, k, res)
            /\ answered' = answered \cup {k}
            /\ requests' =
                 [j \in DOMAIN requests |->
                    IF j > k + 1 /\ sent[j] = Nil
                    THEN fill(requests[j], OutputOracle(outputs'))
                    ELSE requests[j]]
    /\ UNCHANGED <<built, outputKinds, phase, sent, lastPush, awaited>>
    /\ UNCHANGED <<reqVars, voteVars, lockVars, codecVars, verifyVars, ipfsVars>>

\* Batches the builder has made: a header proof alone and with a request
\* that takes the hash it proves, and an account with a request that takes
\* its code hash or its storage root.
PendingBatches ==
    LET proof   == [kind |-> "HeaderProof", num |-> Scalar(1)]
        account == [kind |-> "Account", block_hash |-> Scalar(HashOf(1)),
                    address_hash |-> Scalar(HashOf(1))]
    IN  {<<proof>>, <<account>>,
         <<proof, [kind |-> "Body", hash |-> BackReference(0, 0)]>>,
         <<proof, [kind |-> "Receipts", hash |-> BackReference(0, 0)]>>,
         <<proof, [kind |-> "Headers", start |-> BackReference(0, 0), skip |-> 0,
                   max |-> 1, reverse |-> FALSE]>>,
         <<proof, [kind |-> "Account", block_hash |-> BackReference(0, 0),
                   address_hash |-> Scalar(HashOf(1))]>>,
         <<proof, [kind |-> "Code", block_hash |-> BackReference(0, 0),
                   code_hash |-> Scalar(HashOf(1))]>>,
         <<account, [kind |-> "Code", block_hash |-> Scalar(HashOf(1)),
                     code_hash |-> BackReference(0, 0)]>>,
         <<account, [kind |-> "Storage", block_hash |-> Scalar(HashOf(1)),
                     address_hash |-> Scalar(HashOf(1)),
                     key_hash |-> BackReference(0, 1)]>>}

\* The state after finish() of such a batch.
PendingInit ==
    /\ requests \in PendingBatches
    /\ built = requests
    /\ outputKinds = [k \in DOMAIN requests |-> DeclaredRow(requests[k])]
    /\ outputs = << >> /\ phase = "dispatching"
    /\ sent = [k \in DOMAIN requests |-> Nil]
    /\ answered = {} /\ lastPush = Nil /\ awaited = Awaiting

\* Every response has come: the outputs are sent through the channel and
\* the state of the batch is dropped.
Deliver ==
    /\ phase = "dispatching"
    /\ answered = 0..(Len(requests) - 1)
    /\ awaited' = Sent(outputs)
    /\ phase' = "delivered"
    /\ requests' = << >> /\ built' = << >> /\ outputKinds' = << >>
    /\ outputs' = << >> /\ sent' = << >> /\ answered' = {}
    /\ UNCHANGED lastPush
    /\ UNCHANGED <<reqVars, voteVars, lockVars, codecVars, verifyVars, ipfsVars>>

\* The batch is cancelled: its state is dropped, and the sending end of the
\* channel with it.
Cancel ==
    /\ phase = "dispatching"
    /\ phase' = "cancelled"
    /\ requests' = << >> /\ built' = << >> /\ outputKinds' = << >>
    /\ outputs' = << >> /\ sent' = << >> /\ answered' = {}
    /\ UNCHANGED <<lastPush, awaited>>
    /\ UNCHANGED <<reqVars, voteVars, lockVars, codecVars, verifyVars, ipfsVars>>

\* The caller's future is polled: it resolves to what was sent, or, the
\* sending end dropped with nothing sent, to the error err_premature_cancel
\* makes of oneshot::Canceled.
Await ==
    /\ awaited.tag \in {"Awaiting", "Sent"}
    /\ phase \in {"delivered", "cancelled"}
    /\ awaited' = Observed(IF awaited.tag = "Sent" THEN Ok(awaited.value)
                           ELSE err_premature_cancel(Canceled))
    /\ UNCHANGED <<requests, built, outputKinds, outputs, phase, sent, answered,
                   lastPush>>
    /\ UNCHANGED <<reqVars, voteVars, lockVars, codecVars, verifyVars, ipfsVars>>

BatchNext ==
    \/ Push \/ PushFailed \/ Finish \/ Dispatch \/ SupplyResponse
    \/ Deliver \/ Cancel \/ Await

----------------------------------------------------------------------------
(* The vote collector (ethcore/src/engines/vote_collector.rs).             *)
(*                                                                         *)
(* A message is (round, block_hash, signature) as the engines' messages    *)
(* and the tests' TestMessage are; block_hash is an Option<H256>.          *)

\* vote calls of one behaviour.
MaxVotes == 3

\* Default::default() of a round is 0.
Rounds      == {0, 1}
Voters      == {"a1", "a2"}
Signatures  == {"s1", "s2"}
BlockHashes == {"h1", "h2"}
None        == "none"
OptHashes   == BlockHashes \cup {None}
Messages    == [round : Rounds, block_hash : OptHashes, signature : Signatures]

\* #[derive(Default)] struct StepCollector
StepCollectorDefault == [voted |-> {}, block_votes |-> << >>, messages |-> {}]

\* Mutant of StepCollector_insert: the vote of a double voter is recorded.
StepCollector_insert_records_double(c, message, address) ==
    IF message \in c.messages THEN [c |-> c, ret |-> None]
    ELSE LET bh == message.block_hash
             old == IF bh \in DOMAIN c.block_votes THEN c.block_votes[bh] ELSE << >>
             new == [s \in DOMAIN old \cup {message.signature} |->
                        IF s = message.signature THEN address ELSE old[s]]
         IN  [c |-> [voted |-> c.voted \cup {address},
                     block_votes |->
                        [h \in DOMAIN c.block_votes \cup {bh} |->
                            IF h = bh THEN new ELSE c.block_votes[h]],
                     messages |-> c.messages \cup {message}],
              ret |-> IF address \in c.voted THEN address ELSE None]

\* Mutant of StepCollector_insert: the voter is looked up before the message,
\* so a seen message of an address that has voted is reported.
StepCollector_insert_voter_first(c, message, address) ==
    IF address \in c.voted
    THEN [c |-> [c EXCEPT !.messages = c.messages \cup {message}],
          ret |-> address]
    ELSE IF message \in c.messages THEN [c |-> c, ret |-> None]
    ELSE LET bh == message.block_hash
             old == IF bh \in DOMAIN c.block_votes THEN c.block_votes[bh] ELSE << >>
             new == [s \in DOMAIN old \cup {message.signature} |->
                        IF s = message.signature THEN address ELSE old[s]]
         IN  [c |-> [voted |-> c.voted \cup {address},
                     block_votes |->
                        [h \in DOMAIN c.block_votes \cup {bh} |->
                            IF h = bh THEN new ELSE c.block_votes[h]],
                     messages |-> c.messages \cup {message}],
              ret |-> None]

\* StepCollector::insert: the collector after the call and what is returned
\* (None, or the address of the double voter).
StepCollector_insert(c, message, address) ==
    IF message \in c.messages THEN [c |-> c, ret |-> None]
    ELSE IF address \notin c.voted
    THEN LET bh == message.block_hash
             old == IF bh \in DOMAIN c.block_votes THEN c.block_votes[bh] ELSE << >>
             new == [s \in DOMAIN old \cup {message.signature} |->
                        IF s = message.signature THEN address ELSE old[s]]
         IN  [c |-> [voted |-> c.voted \cup {address},
                     block_votes |->
                        [h \in DOMAIN c.block_votes \cup {bh} |->
                            IF h = bh THEN new ELSE c.block_votes[h]],
                     messages |-> c.messages \cup {message}],
              ret |-> None]
    ELSE [c |-> [c EXCEPT !.messages = c.messages \cup {message}],
          ret |-> address]

\* StepCollector::count_block
count_block(c, block_hash) ==
    IF block_hash \in DOMAIN c.block_votes
    THEN Cardinality(DOMAIN c.block_votes[block_hash]) ELSE 0

\* StepCollector::count
RECURSIVE SumOver(_, _)
SumOver(f, S) ==
    IF S = {} THEN 0
    ELSE LET x == CHOOSE y \in S : TRUE IN
         Cardinality(DOMAIN f[x]) + SumOver(f, S \ {x})

count(c) == SumOver(c.block_votes, DOMAIN c.block_votes)

\* VoteCollector::default: one dummy round.
VoteCollectorDefault == [r \in {0} |-> StepCollectorDefault]

\* VoteCollector::vote on the round map vs.
vote(vs, message, voter) ==
    LET r == message.round
        c == IF r \in DOMAIN vs THEN vs[r] ELSE StepCollectorDefault
        res == StepCollector_insert(c, message, voter)
    IN  [votes |-> [x \in DOMAIN vs \cup {r} |-> IF x = r THEN res.c ELSE vs[x]],
         ret |-> res.ret]

\* Mutant of split_off: the rounds up to the key are kept instead.
split_off_lower(vs, vote_round) ==
    [x \in {y \in DOMAIN vs : y <= vote_round} |-> vs[x]]

\* BTreeMap::split_off(vote_round): everything at and after the key.
split_off(vs, vote_round) ==
    [x \in {y \in DOMAIN vs : y >= vote_round} |-> vs[x]]

\* Mutant of throw_out_old: the cutoff round itself is thrown out as well.
throw_out_old_strict(vs, vote_round) ==
    [x \in {y \in DOMAIN vs : y > vote_round} |-> vs[x]]

\* VoteCollector::throw_out_old
throw_out_old(vs, vote_round) == split_off(vs, vote_round)

\* Mutant of CommitSignatures: the commit signatures of every block hash.
CommitSignatures_any_hash(vs, commit_round, bh) ==
    IF commit_round \in DOMAIN vs
    THEN UNION {DOMAIN vs[commit_round].block_votes[h] :
                    h \in DOMAIN vs[commit_round].block_votes}
    ELSE {}

\* The signatures seal_signatures collects as votes: the keys of
\* block_votes[bh] at commit_round; none when the round or the hash is absent.
CommitSignatures(vs, commit_round, bh) ==
    IF commit_round \in DOMAIN vs /\ bh \in DOMAIN vs[commit_round].block_votes
    THEN DOMAIN vs[commit_round].block_votes[bh]
    ELSE {}

\* The signatures seal_signatures may return as proposal: the keys of
\* block_votes[bh] at proposal_round (keys().next() of a HashMap is any key).
ProposalSignatures(vs, proposal_round, bh) ==
    IF proposal_round \in DOMAIN vs /\ bh \in DOMAIN vs[proposal_round].block_votes
    THEN DOMAIN vs[proposal_round].block_votes[bh]
    ELSE {}

\* The orders in which a HashMap may yield the keys S.
Orders(S) ==
    {q \in [1..Cardinality(S) -> S] : \A i, j \in DOMAIN q : q[i] = q[j] => i = j}

\* Option<SealSignatures>::None
NoSeal == [proposal |-> None, votes |-> << >>]

\* VoteCollector::seal_signatures: the results the call may return, NoSeal
\* or a SealSignatures.
seal_signatures_results(vs, proposal_round, commit_round, block_hash) ==
    LET proposals == ProposalSignatures(vs, proposal_round, block_hash)
        commits == CommitSignatures(vs, commit_round, block_hash)
    IN  IF proposals = {} \/ commits = {} THEN {NoSeal}
        ELSE {[proposal |-> pr, votes |-> q] : pr \in proposals, q \in Orders(commits)}

\* VoteCollector::count_aligned_votes
count_aligned_votes(vs, message) ==
    IF message.round \in DOMAIN vs
    THEN count_block(vs[message.round], message.block_hash) ELSE 0

\* VoteCollector::count_round_votes
count_round_votes(vs, vote_round) ==
    IF vote_round \in DOMAIN vs THEN count(vs[vote_round]) ELSE 0

\* Mutant of get: the signature is looked up under every block hash of the
\* round.
get_under_any_hash(vs, message) ==
    IF /\ message.round \in DOMAIN vs
       /\ \E h \in DOMAIN vs[message.round].block_votes :
             message.signature \in DOMAIN vs[message.round].block_votes[h]
    THEN LET h == CHOOSE h \in DOMAIN vs[message.round].block_votes :
                     message.signature \in DOMAIN vs[message.round].block_votes[h]
         IN  vs[message.round].block_votes[h][message.signature]
    ELSE None

\* VoteCollector::get
get(vs, message) ==
    IF /\ message.round \in DOMAIN vs
       /\ message.block_hash \in DOMAIN vs[message.round].block_votes
       /\ message.signature \in
             DOMAIN vs[message.round].block_votes[message.block_hash]
    THEN vs[message.round].block_votes[message.block_hash][message.signature]
    ELSE None

VoteIdle ==
    /\ votes = << >> /\ lastCall = Nil /\ submitted = {} /\ nVotes = 0

VoteInit ==
    /\ votes = VoteCollectorDefault
    /\ lastCall = Nil
    /\ submitted = {}
    /\ nVotes = 0

\* vote(message, voter)
Vote ==
    /\ nVotes < MaxVotes
    /\ \E message \in Messages, voter \in Voters :
        LET res == vote(votes, message, voter) IN
        /\ votes' = res.votes
        /\ lastCall' = [op |-> "vote", message |-> message, voter |-> voter,
                        ret |-> res.ret, before |-> votes,
                        earlier |-> submitted]
        /\ submitted' = submitted \cup
              {<<message.round, voter,
                 ~(message.round \in DOMAIN votes
                   /\ message \in votes[message.round].messages)>>}
    /\ nVotes' = nVotes + 1
    /\ UNCHANGED <<reqVars, batchVars, lockVars, codecVars, verifyVars, ipfsVars>>

\* throw_out_old(vote_round)
ThrowOutOld ==
    /\ \E vote_round \in Rounds :
        /\ votes' = throw_out_old(votes, vote_round)
        /\ lastCall' = [op |-> "throw_out_old", vote_round |-> vote_round,
                        before |-> votes]
    /\ UNCHANGED <<submitted, nVotes>>
    /\ UNCHANGED <<reqVars, batchVars, lockVars, codecVars, verifyVars, ipfsVars>>

\* What the call before returned, when it was a seal_signatures with these
\* arguments that returned a seal; NoSeal otherwise.
SealBefore(proposal_round, commit_round, block_hash) ==
    IF /\ lastCall # Nil
       /\ lastCall.op = "seal_signatures"
       /\ lastCall.proposal_round = proposal_round
       /\ lastCall.commit_round = commit_round
       /\ lastCall.block_hash = block_hash
    THEN lastCall.ret ELSE NoSeal

\* Mutant of SealSignatures: the commit round is thrown out as well.
SealSignatures_pruning_commit_round ==
    /\ \E proposal_round \in Rounds, commit_round \in Rounds, block_hash \in BlockHashes :
        \E maybe_seal \in seal_signatures_results(votes, proposal_round,
                                                  commit_round, block_hash) :
            /\ votes' = IF maybe_seal # NoSeal
                        THEN throw_out_old(votes, commit_round + 1) ELSE votes
            /\ lastCall' = [op |-> "seal_signatures",
                            proposal_round |-> proposal_round,
                            commit_round |-> commit_round,
                            block_hash |-> block_hash,
                            ret |-> maybe_seal, before |-> votes,
                            first |-> SealBefore(proposal_round, commit_round,
                                                 block_hash)]
    /\ UNCHANGED <<submitted, nVotes>>
    /\ UNCHANGED <<reqVars, batchVars, lockVars, codecVars, verifyVars, ipfsVars>>

\* Mutant of SealSignatures: no round is thrown out.
SealSignatures_without_pruning ==
    /\ \E proposal_round \in Rounds, commit_round \in Rounds, block_hash \in BlockHashes :
        \E maybe_seal \in seal_signatures_results(votes, proposal_round,
                                                  commit_round, block_hash) :
            /\ votes' = votes
            /\ lastCall' = [op |-> "seal_signatures",
                            proposal_round |-> proposal_round,
                            commit_round |-> commit_round,
                            block_hash |-> block_hash,
                            ret |-> maybe_seal, before |-> votes,
                            first |-> SealBefore(proposal_round, commit_round,
                                                 block_hash)]
    /\ UNCHANGED <<submitted, nVotes>>
    /\ UNCHANGED <<reqVars, batchVars, lockVars, codecVars, verifyVars, ipfsVars>>

\* seal_signatures(proposal_round, commit_round, block_hash): the seal is
\* read, and when there is one the rounds before commit_round are thrown out.
\* The call records what the same call returned just before it, if any.
SealSignatures ==
    /\ \E proposal_round \in Rounds, commit_round \in Rounds, block_hash \in BlockHashes :
        \E maybe_seal \in seal_signatures_results(votes, proposal_round,
                                                  commit_round, block_hash) :
            /\ votes' = IF maybe_seal # NoSeal
                        THEN throw_out_old(votes, commit_round) ELSE votes
            /\ lastCall' = [op |-> "seal_signatures",
                            proposal_round |-> proposal_round,
                            commit_round |-> commit_round,
                            block_hash |-> block_hash,
                            ret |-> maybe_seal, before |-> votes,
                            first |-> SealBefore(proposal_round, commit_round,
                                                 block_hash)]
    /\ UNCHANGED <<submitted, nVotes>>
    /\ UNCHANGED <<reqVars, batchVars, lockVars, codecVars, verifyVars, ipfsVars>>

VoteNext == Vote \/ ThrowOutOld \/ SealSignatures

----------------------------------------------------------------------------
(* Threads calling one VoteCollector (vote_collector.rs).                  *)
(*                                                                         *)
(* The round map is behind an RwLock.  A call requests a guard, waits      *)
(* until the lock grants it, works on the map and drops the guard.  Each   *)
(* thread submits the votes of one validator.                              *)

Threads == Voters

\* The messages the threads vote with.
LockMessages == [round : Rounds, block_hash : {"h1"}, signature : {"s1"}]

Idle == [at |-> "idle"]

LockIdle ==
    /\ pc = << >> /\ readers = << >> /\ writers = {} /\ writerPriority = FALSE

\* The collector as constructed, no call under way, a lock of either policy.
LockInit ==
    /\ pc = [t \in Threads |-> Idle]
    /\ readers = [t \in Threads |-> 0]
    /\ writers = {}
    /\ writerPriority \in BOOLEAN
    /\ VoteInit

\* The places where a thread waits for the exclusive guard.
WriteWaits == {"vote_write", "throw_out_old_write", "seal_signatures_write"}

\* RwLock::write is granted when no guard is held.
WriteGranted == writers = {} /\ \A t \in Threads : readers[t] = 0

\* RwLock::read is granted when no exclusive guard is held and, for a lock
\* that prefers writers, no thread waits for the exclusive guard.
ReadGranted ==
    /\ writers = {}
    /\ writerPriority => \A t \in Threads : pc[t].at \notin WriteWaits

\* Mutant of DropReadGuard: the read guard of seal_signatures lives on.
KeepReadGuard(held, t) == held

\* The guards held once the thread t has dropped one shared guard.
DropReadGuard(held, t) == [held EXCEPT ![t] = held[t] - 1]

\* vote: self.votes.write() is requested.
CallVote(t) ==
    /\ pc[t] = Idle
    /\ nVotes < MaxVotes
    /\ \E message \in LockMessages :
          pc' = [pc EXCEPT ![t] = [at |-> "vote_write", message |-> message]]
    /\ nVotes' = nVotes + 1
    /\ UNCHANGED <<votes, lastCall, submitted, readers, writers, writerPriority>>
    /\ UNCHANGED <<reqVars, batchVars, codecVars, verifyVars, ipfsVars>>

\* vote: the exclusive guard is granted.
VoteLocked(t) ==
    /\ pc[t].at = "vote_write"
    /\ WriteGranted
    /\ writers' = {t}
    /\ pc' = [pc EXCEPT ![t].at = "vote_insert"]
    /\ UNCHANGED <<voteVars, readers, writerPriority>>
    /\ UNCHANGED <<reqVars, batchVars, codecVars, verifyVars, ipfsVars>>

\* vote: the entry of the round is inserted into, the guard is dropped.
VoteInsert(t) ==
    /\ pc[t].at = "vote_insert"
    /\ votes' = vote(votes, pc[t].message, t).votes
    /\ writers' = {}
    /\ pc' = [pc EXCEPT ![t] = Idle]
    /\ UNCHANGED <<lastCall, submitted, nVotes, readers, writerPriority>>
    /\ UNCHANGED <<reqVars, batchVars, codecVars, verifyVars, ipfsVars>>

\* throw_out_old: self.votes.write() is requested.
CallThrowOutOld(t) ==
    /\ pc[t] = Idle
    /\ \E vote_round \in Rounds :
          pc' = [pc EXCEPT ![t] = [at |-> "throw_out_old_write",
                                   vote_round |-> vote_round]]
    /\ UNCHANGED <<voteVars, readers, writers, writerPriority>>
    /\ UNCHANGED <<reqVars, batchVars, codecVars, verifyVars, ipfsVars>>

\* throw_out_old: the exclusive guard is granted.
ThrowOutOldLocked(t) ==
    /\ pc[t].at = "throw_out_old_write"
    /\ WriteGranted
    /\ writers' = {t}
    /\ pc' = [pc EXCEPT ![t].at = "throw_out_old_split"]
    /\ UNCHANGED <<voteVars, readers, writerPriority>>
    /\ UNCHANGED <<reqVars, batchVars, codecVars, verifyVars, ipfsVars>>

\* throw_out_old: the map is split, the guard is dropped.
ThrowOutOldSplit(t) ==
    /\ pc[t].at = "throw_out_old_split"
    /\ votes' = throw_out_old(votes, pc[t].vote_round)
    /\ writers' = {}
    /\ pc' = [pc EXCEPT ![t] = Idle]
    /\ UNCHANGED <<lastCall, submitted, nVotes, readers, writerPriority>>
    /\ UNCHANGED <<reqVars, batchVars, codecVars, verifyVars, ipfsVars>>

\* seal_signatures: self.votes.read() is requested.
CallSealSignatures(t) ==
    /\ pc[t] = Idle
    /\ \E proposal_round \in Rounds, commit_round \in Rounds :
          pc' = [pc EXCEPT ![t] = [at |-> "seal_signatures_read",
                                   proposal_round |-> proposal_round,
                                   commit_round |-> commit_round,
                                   block_hash |-> "h1"]]
    /\ UNCHANGED <<voteVars, readers, writers, writerPriority>>
    /\ UNCHANGED <<reqVars, batchVars, codecVars, verifyVars, ipfsVars>>

\* seal_signatures: the shared guard is granted.
SealSignaturesLocked(t) ==
    /\ pc[t].at = "seal_signatures_read"
    /\ ReadGranted
    /\ readers' = [readers EXCEPT ![t] = readers[t] + 1]
    /\ pc' = [pc EXCEPT ![t].at = "seal_signatures_seal"]
    /\ UNCHANGED <<voteVars, writers, writerPriority>>
    /\ UNCHANGED <<reqVars, batchVars, codecVars, verifyVars, ipfsVars>>

\* seal_signatures: maybe_seal is read and the block of the guard ends; with
\* a seal the call goes on to throw_out_old(&commit_round), which requests
\* self.votes.write(); without one it returns.
SealSignaturesRead(t) ==
    /\ pc[t].at = "seal_signatures_seal"
    /\ \E maybe_seal \in seal_signatures_results(votes, pc[t].proposal_round,
                                 pc[t].commit_round, pc[t].block_hash) :
          pc' = [pc EXCEPT ![t] =
                    IF maybe_seal # NoSeal
                    THEN [at |-> "seal_signatures_write",
                          vote_round |-> pc[t].commit_round]
                    ELSE Idle]
    /\ readers' = DropReadGuard(readers, t)
    /\ UNCHANGED <<voteVars, writers, writerPriority>>
    /\ UNCHANGED <<reqVars, batchVars, codecVars, verifyVars, ipfsVars>>

\* seal_signatures: the exclusive guard of its throw_out_old is granted.
SealSignaturesPruneLocked(t) ==
    /\ pc[t].at = "seal_signatures_write"
    /\ WriteGranted
    /\ writers' = {t}
    /\ pc' = [pc EXCEPT ![t].at = "seal_signatures_split"]
    /\ UNCHANGED <<voteVars, readers, writerPriority>>
    /\ UNCHANGED <<reqVars, batchVars, codecVars, verifyVars, ipfsVars>>

\* seal_signatures: the map is split, every guard the call holds is dropped
\* and the call returns.
SealSignaturesPrune(t) ==
    /\ pc[t].at = "seal_signatures_split"
    /\ votes' = throw_out_old(votes, pc[t].vote_round)
    /\ writers' = {}
    /\ readers' = [readers EXCEPT ![t] = 0]
    /\ pc' = [pc EXCEPT ![t] = Idle]
    /\ UNCHANGED <<lastCall, submitted, nVotes, writerPriority>>
    /\ UNCHANGED <<reqVars, batchVars, codecVars, verifyVars, ipfsVars>>

\* The steps of the calls under way.
LockProgress ==
    \E t \in Threads :
        \/ VoteLocked(t) \/ VoteInsert(t)
        \/ ThrowOutOldLocked(t) \/ ThrowOutOldSplit(t)
        \/ SealSignaturesLocked(t) \/ SealSignaturesRead(t)
        \/ SealSignaturesPruneLocked(t) \/ SealSignaturesPrune(t)

\* The calls a thread may start.
LockCall ==
    \E t \in Threads : CallVote(t) \/ CallThrowOutOld(t) \/ CallSealSignatures(t)

LockNext == LockCall \/ LockProgress

\* is_old_or_known, its left operand: the message is among the messages of
\* its round.
is_known(vs, message) ==
    message.round \in DOMAIN vs /\ message \in vs[message.round].messages

\* is_old_or_known, its right operand: the round of the message is not
\* after the oldest round kept.
is_old(vs, message) ==
    DOMAIN vs = {} \/ \A r \in DOMAIN vs : message.round <= r

\* guard.keys().next(): Some(the oldest round kept), None when the map is
\* empty.
oldest_round(vs) ==
    IF DOMAIN vs = {} THEN [some |-> FALSE]
    ELSE [some |-> TRUE,
          val |-> CHOOSE r \in DOMAIN vs : \A x \in DOMAIN vs : r <= x]

\* is_old_or_known(message) called by the one thread there is: both operands
\* read the map as it is.
IsOldOrKnown ==
    /\ \E message \in Messages :
          lastCall' = [op |-> "is_old_or_known", message |-> message,
                       ret |-> is_known(votes, message) \/ is_old(votes, message),
                       known |-> is_known(votes, message),
                       oldest |-> oldest_round(votes),
                       before |-> votes]
    /\ UNCHANGED <<votes, submitted, nVotes>>
    /\ UNCHANGED <<reqVars, batchVars, lockVars, codecVars, verifyVars, ipfsVars>>

\* is_old_or_known: self.votes.read() of the left operand is requested.
CallIsOldOrKnown(t) ==
    /\ pc[t] = Idle
    /\ \E message \in LockMessages :
          pc' = [pc EXCEPT ![t] = [at |-> "is_known_read", message |-> message]]
    /\ UNCHANGED <<voteVars, readers, writers, writerPriority>>
    /\ UNCHANGED <<reqVars, batchVars, codecVars, verifyVars, ipfsVars>>

\* is_old_or_known: the shared guard of the left operand is granted.
IsKnownLocked(t) ==
    /\ pc[t].at = "is_known_read"
    /\ ReadGranted
    /\ readers' = [readers EXCEPT ![t] = readers[t] + 1]
    /\ pc' = [pc EXCEPT ![t].at = "is_known_get"]
    /\ UNCHANGED <<voteVars, writers, writerPriority>>
    /\ UNCHANGED <<reqVars, batchVars, codecVars, verifyVars, ipfsVars>>

\* is_old_or_known: the left operand is evaluated.  For a known message the
\* call returns and its guard is dropped.  Otherwise the right operand
\* requests self.votes.read() again.  The guard of the left operand is a
\* temporary of the function's tail expression: a compiler that ends the
\* temporaries of the left operand of || with the whole expression keeps it
\* until the call returns, one that ends them with the operand drops it
\* here.
IsKnownGet(t) ==
    /\ pc[t].at = "is_known_get"
    /\ IF is_known(votes, pc[t].message)
       THEN /\ pc' = [pc EXCEPT ![t] = Idle]
            /\ readers' = DropReadGuard(readers, t)
            /\ lastCall' = [op |-> "is_old_or_known", message |-> pc[t].message,
                            ret |-> TRUE]
       ELSE /\ pc' = [pc EXCEPT ![t].at = "is_old_read"]
            /\ readers' \in {readers, DropReadGuard(readers, t)}
            /\ UNCHANGED lastCall
    /\ UNCHANGED <<votes, submitted, nVotes, writers, writerPriority>>
    /\ UNCHANGED <<reqVars, batchVars, codecVars, verifyVars, ipfsVars>>

\* is_old_or_known: the shared guard of the right operand is granted.
IsOldLocked(t) ==
    /\ pc[t].at = "is_old_read"
    /\ ReadGranted
    /\ readers' = [readers EXCEPT ![t] = readers[t] + 1]
    /\ pc' = [pc EXCEPT ![t].at = "is_old_keys"]
    /\ UNCHANGED <<voteVars, writers, writerPriority>>
    /\ UNCHANGED <<reqVars, batchVars, codecVars, verifyVars, ipfsVars>>

\* is_old_or_known: the right operand is evaluated, every guard the call
\* holds is dropped and the call returns.
IsOldKeys(t) ==
    /\ pc[t].at = "is_old_keys"
    /\ lastCall' = [op |-> "is_old_or_known", message |-> pc[t].message,
                    ret |-> is_old(votes, pc[t].message)]
    /\ readers' = [readers EXCEPT ![t] = 0]
    /\ pc' = [pc EXCEPT ![t] = Idle]
    /\ UNCHANGED <<votes, submitted, nVotes, writers, writerPriority>>
    /\ UNCHANGED <<reqVars, batchVars, codecVars, verifyVars, ipfsVars>>

\* The steps of the is_old_or_known calls under way.
IsOldOrKnownProgress ==
    \E t \in Threads :
        IsKnownLocked(t) \/ IsKnownGet(t) \/ IsOldLocked(t) \/ IsOldKeys(t)

\* The calls of the collector with is_old_or_known among them.
LockAllNext ==
    \/ LockNext
    \/ \E t \in Threads : CallIsOldOrKnown(t)
    \/ IsOldOrKnownProgress

----------------------------------------------------------------------------
(* The wire codec (types/request/mod.rs over the rlp crate).               *)
(*                                                                         *)
(* An encoded value is an RLP item: a string of bytes, or a list of items. *)
(* RlpStream builds items and UntrustedRlp reads them; the byte layout of  *)
(* an item is the rlp crate's and plays no part here.                      *)

RlpData(bytes) == [is_list |-> FALSE, bytes |-> bytes]
RlpList(items) == [is_list |-> TRUE, items |-> items]

\* DecoderError
DecoderError(e) == [ok |-> FALSE, err |-> e]

\* The big-endian bytes of an unsigned integer, without leading zeros.
RECURSIVE ToBytes(_)
ToBytes(n) == IF n = 0 THEN << >> ELSE Append(ToBytes(n \div 256), n % 256)

RECURSIVE FromBytes(_)
FromBytes(bs) ==
    IF bs = << >> THEN 0
    ELSE 256 * FromBytes(SubSeq(bs, 1, Len(bs) - 1)) + bs[Len(bs)]

\* append(&n) for an unsigned integer.
encode_uint(n) == RlpData(ToBytes(n))

\* as_val for an unsigned integer of the given width in bytes.  A value of
\* more than three bytes is outside the integers of the model and is kept
\* as its bytes.
decode_uint(item, width) ==
    IF item.is_list THEN DecoderError("RlpExpectedToBeData")
    ELSE IF item.bytes = << >> THEN Ok(0)
    ELSE IF item.bytes[1] = 0 THEN DecoderError("RlpInvalidIndirection")
    ELSE IF Len(item.bytes) > width THEN DecoderError("RlpIsTooBig")
    ELSE IF Len(item.bytes) > 3 THEN Ok([wide |-> item.bytes])
    ELSE Ok(FromBytes(item.bytes))

\* append / as_val for a fixed-size hash of the given number of bytes.
encode_fixed(h) == RlpData(h)

decode_fixed(item, size) ==
    IF item.is_list THEN DecoderError("RlpExpectedToBeData")
    ELSE IF Len(item.bytes) < size THEN DecoderError("RlpIsTooShort")
    ELSE IF Len(item.bytes) > size THEN DecoderError("RlpIsTooBig")
    ELSE Ok(item.bytes)

\* append / as_val for a bool.
encode_bool(b) == RlpData(IF b THEN <<1>> ELSE <<0>>)

decode_bool(item) ==
    IF item.is_list THEN DecoderError("RlpExpectedToBeData")
    ELSE IF Len(item.bytes) = 0 THEN Ok(FALSE)
    ELSE IF Len(item.bytes) = 1 THEN Ok(item.bytes[1] # 0)
    ELSE DecoderError("RlpIsTooBig")

\* append / as_val for Bytes (Vec<u8>): the bytes as one string.
encode_bytes(bs) == RlpData(bs)

decode_bytes(item) ==
    IF item.is_list THEN DecoderError("RlpExpectedToBeData") ELSE Ok(item.bytes)

\* `?` on a read: its error is returned, or its value goes on.
Try(r, Then(_)) == IF r.ok THEN Then(r.val) ELSE r

\* The results of a run of reads each ended by `?`: whether all are Ok, and
\* the error that is returned when not.
AllOk(reads) == \A i \in DOMAIN reads : reads[i].ok
FirstError(reads) ==
    reads[CHOOSE i \in DOMAIN reads : ~reads[i].ok /\ \A j \in 1..(i - 1) : reads[j].ok]

\* A run of reads each ended by `?`, then the value built of what they read.
Reads(reads, Build(_)) ==
    IF AllOk(reads) THEN Ok(Build(reads)) ELSE FirstError(reads)

\* UntrustedRlp::iter: the items of a list; nothing for a string.
iter(item) == IF item.is_list THEN item.items ELSE << >>

\* append_list of a slice of u8: a list with one item per byte.
append_list_u8(bs) == RlpList([i \in DOMAIN bs |-> encode_uint(bs[i])])

\* UntrustedRlp::at: the item at an index of a list.
at(item, index) ==
    IF ~item.is_list THEN DecoderError("RlpExpectedToBeList")
    ELSE IF index >= Len(item.items) THEN DecoderError("RlpIsTooShort")
    ELSE Ok(item.items[index + 1])

\* The 20 bytes of an address of the model.
AddressBytes(a) == [i \in 1..20 |-> 7]

\* Action: Create is the empty string, Call(address) the address.
encode_action(action) ==
    IF action = "Create" THEN RlpData(<< >>)
    ELSE encode_fixed(AddressBytes("addr_a"))

decode_action(item) ==
    IF ~item.is_list /\ item.bytes = << >> THEN Ok("Create")
    ELSE Try(decode_fixed(item, 20), LAMBDA a : Ok("Call"))

\* impl Encodable for HashOrNumber
HashOrNumber_encode(v) ==
    IF v.tag = "Hash" THEN encode_fixed(v.val) ELSE encode_uint(v.val)

\* Mutant of HashOrNumber_decode: the hash shape alone is tried.
HashOrNumber_decode_hash_only(item) ==
    Try(decode_fixed(item, HashLen), LAMBDA h : Ok(HashOrNumberFromHash(h)))

\* impl Decodable for HashOrNumber: the hash shape first, then the number.
HashOrNumber_decode(item) ==
    IF decode_fixed(item, HashLen).ok
    THEN Try(decode_fixed(item, HashLen), LAMBDA h : Ok(HashOrNumberFromHash(h)))
    ELSE Try(decode_uint(item, 8), LAMBDA n : Ok(HashOrNumberFromNumber(n)))

\* The types T of the values read with as_val::<T> and written with append.
ValTypes == {"u8", "u64", "usize", "U256", "H256", "bool", "Bytes", "Address",
             "Action", "HashOrNumber"}

\* append(&v) for a value of type T.
encode_val(T, v) ==
    CASE T \in {"u8", "u64", "usize", "U256"} -> encode_uint(v)
      [] T = "H256"         -> encode_fixed(v)
      [] T = "Address"      -> encode_fixed(AddressBytes(v))
      [] T = "bool"         -> encode_bool(v)
      [] T = "Bytes"        -> encode_bytes(v)
      [] T = "Action"       -> encode_action(v)
      [] T = "HashOrNumber" -> HashOrNumber_encode(v)

\* as_val::<T>()
as_val(T, item) ==
    CASE T = "u8"           -> decode_uint(item, 1)
      [] T \in {"u64", "usize"} -> decode_uint(item, 8)
      [] T = "U256"         -> decode_uint(item, 32)
      [] T = "H256"         -> decode_fixed(item, HashLen)
      [] T = "Address"      -> Try(decode_fixed(item, 20), LAMBDA a : Ok("addr_a"))
      [] T = "bool"         -> decode_bool(item)
      [] T = "Bytes"        -> decode_bytes(item)
      [] T = "Action"       -> decode_action(item)
      [] T = "HashOrNumber" -> HashOrNumber_decode(item)

\* val_at::<T>(index) = at(index)?.as_val()
val_at(T, item, index) == Try(at(item, index), LAMBDA i : as_val(T, i))

\* list_at::<Bytes>(index): the items of the item at the index, each read
\* as Bytes; the first error if one fails.
list_at_bytes(item, index) ==
    Try(at(item, index), LAMBDA l :
        Reads([i \in DOMAIN iter(l) |-> decode_bytes(iter(l)[i])],
              LAMBDA rd : [i \in DOMAIN rd |-> rd[i].val]))

\* Mutant of Field_encode: the back-reference is written flat, not nested.
Field_encode_flat(T, f) ==
    IF f.tag = "Scalar"
    THEN RlpList(<<encode_uint(0), encode_val(T, f.val)>>)
    ELSE RlpList(<<encode_uint(1), encode_uint(f.req), encode_uint(f.idx)>>)

\* impl Encodable for Field<T>
Field_encode(T, f) ==
    IF f.tag = "Scalar"
    THEN RlpList(<<encode_uint(0), encode_val(T, f.val)>>)
    ELSE RlpList(<<encode_uint(1),
                   RlpList(<<encode_uint(f.req), encode_uint(f.idx)>>)>>)

\* impl Decodable for Field<T>
Field_decode(T, item) ==
    Try(val_at("u8", item, 0), LAMBDA disc :
        CASE disc = 0 -> Try(val_at(T, item, 1), LAMBDA v : Ok(Scalar(v)))
          [] disc = 1 ->
             Try(at(item, 1), LAMBDA inner_rlp :
                 Reads(<<val_at("usize", inner_rlp, 0), val_at("usize", inner_rlp, 1)>>,
                       LAMBDA rd : BackReference(rd[1].val, rd[2].val)))
          [] OTHER -> DecoderError("Unknown discriminant for PIP field."))

\* enum Kind: the discriminant of a kind (TransactionIndex = 2 is left out).
KindId(kind) ==
    CASE kind = "Headers" -> 0 [] kind = "HeaderProof" -> 1
      [] kind = "Receipts" -> 3 [] kind = "Body" -> 4
      [] kind = "Account" -> 5 [] kind = "Storage" -> 6
      [] kind = "Code" -> 7 [] kind = "Execution" -> 8

\* impl Encodable for Kind
Kind_encode(kind) == encode_uint(KindId(kind))

\* Mutant of Kind_decode: the id 2 is read as Receipts.
Kind_decode_with_two(item) ==
    Try(as_val("u8", item), LAMBDA id :
        CASE id = 0 -> Ok("Headers")
          [] id = 1 -> Ok("HeaderProof")
          [] id = 2 -> Ok("Receipts")
          [] id = 3 -> Ok("Receipts")
          [] id = 4 -> Ok("Body")
          [] id = 5 -> Ok("Account")
          [] id = 6 -> Ok("Storage")
          [] id = 7 -> Ok("Code")
          [] id = 8 -> Ok("Execution")
          [] OTHER -> DecoderError("Unknown PIP request ID."))

\* impl Decodable for Kind
Kind_decode(item) ==
    Try(as_val("u8", item), LAMBDA id :
        CASE id = 0 -> Ok("Headers")
          [] id = 1 -> Ok("HeaderProof")
          [] id = 3 -> Ok("Receipts")
          [] id = 4 -> Ok("Body")
          [] id = 5 -> Ok("Account")
          [] id = 6 -> Ok("Storage")
          [] id = 7 -> Ok("Code")
          [] id = 8 -> Ok("Execution")
          [] OTHER -> DecoderError("Unknown PIP request ID."))

\* val_at::<Field<T>>(index)
field_at(T, item, index) == Try(at(item, index), LAMBDA i : Field_decode(T, i))

\* header::Incomplete
header_encode(req) ==
    RlpList(<<Field_encode("HashOrNumber", req.start), encode_val("u64", req.skip),
              encode_val("u64", req.max), encode_val("bool", req.reverse)>>)

header_decode(item) ==
    Reads(<<field_at("HashOrNumber", item, 0), val_at("u64", item, 1),
            val_at("u64", item, 2), val_at("bool", item, 3)>>,
          LAMBDA rd : [kind |-> "Headers", start |-> rd[1].val, skip |-> rd[2].val,
                       max |-> rd[3].val, reverse |-> rd[4].val])

\* header_proof::Incomplete
header_proof_encode(req) == RlpList(<<Field_encode("u64", req.num)>>)

header_proof_decode(item) ==
    Reads(<<field_at("u64", item, 0)>>,
          LAMBDA rd : [kind |-> "HeaderProof", num |-> rd[1].val])

\* block_receipts::Incomplete
block_receipts_encode(req) == RlpList(<<Field_encode("H256", req.hash)>>)

block_receipts_decode(item) ==
    Reads(<<field_at("H256", item, 0)>>,
          LAMBDA rd : [kind |-> "Receipts", hash |-> rd[1].val])

\* block_body::Incomplete
block_body_encode(req) == RlpList(<<Field_encode("H256", req.hash)>>)

block_body_decode(item) ==
    Reads(<<field_at("H256", item, 0)>>,
          LAMBDA rd : [kind |-> "Body", hash |-> rd[1].val])

\* account::Incomplete
account_encode(req) ==
    RlpList(<<Field_encode("H256", req.block_hash),
              Field_encode("H256", req.address_hash)>>)

account_decode(item) ==
    Reads(<<field_at("H256", item, 0), field_at("H256", item, 1)>>,
          LAMBDA rd : [kind |-> "Account", block_hash |-> rd[1].val,
                       address_hash |-> rd[2].val])

\* storage::Incomplete
storage_encode(req) ==
    RlpList(<<Field_encode("H256", req.block_hash),
              Field_encode("H256", req.address_hash),
              Field_encode("H256", req.key_hash)>>)

storage_decode(item) ==
    Reads(<<field_at("H256", item, 0), field_at("H256", item, 1),
            field_at("H256", item, 2)>>,
          LAMBDA rd : [kind |-> "Storage", block_hash |-> rd[1].val,
                       address_hash |-> rd[2].val, key_hash |-> rd[3].val])

\* contract_code::Incomplete
contract_code_encode(req) ==
    RlpList(<<Field_encode("H256", req.block_hash),
              Field_encode("H256", req.code_hash)>>)

contract_code_decode(item) ==
    Reads(<<field_at("H256", item, 0), field_at("H256", item, 1)>>,
          LAMBDA rd : [kind |-> "Code", block_hash |-> rd[1].val,
                       code_hash |-> rd[2].val])

\* execution::Incomplete
execution_encode(req) ==
    RlpList(<<Field_encode("H256", req.block_hash), encode_val("Address", req.from),
              encode_val("Action", req.action), encode_val("U256", req.gas),
              encode_val("U256", req.gas_price), encode_val("U256", req.value),
              encode_val("Bytes", req.data)>>)

execution_decode(item) ==
    Reads(<<field_at("H256", item, 0), val_at("Address", item, 1),
            val_at("Action", item, 2), val_at("U256", item, 3),
            val_at("U256", item, 4), val_at("U256", item, 5),
            val_at("Bytes", item, 6)>>,
          LAMBDA rd : [kind |-> "Execution", block_hash |-> rd[1].val,
                       from |-> rd[2].val, action |-> rd[3].val, gas |-> rd[4].val,
                       gas_price |-> rd[5].val, value |-> rd[6].val,
                       data |-> rd[7].val])

\* The encoding of the request inside a Request (s.append(req)).
Incomplete_encode(req) ==
    CASE req.kind = "Headers"     -> header_encode(req)
      [] req.kind = "HeaderProof" -> header_proof_encode(req)
      [] req.kind = "Receipts"    -> block_receipts_encode(req)
      [] req.kind = "Body"        -> block_body_encode(req)
      [] req.kind = "Account"     -> account_encode(req)
      [] req.kind = "Storage"     -> storage_encode(req)
      [] req.kind = "Code"        -> contract_code_encode(req)
      [] req.kind = "Execution"   -> execution_encode(req)

\* The decoder of the request struct of a kind.
Incomplete_decode(kind, item) ==
    CASE kind = "Headers"     -> header_decode(item)
      [] kind = "HeaderProof" -> header_proof_decode(item)
      [] kind = "Receipts"    -> block_receipts_decode(item)
      [] kind = "Body"        -> block_body_decode(item)
      [] kind = "Account"     -> account_decode(item)
      [] kind = "Storage"     -> storage_decode(item)
      [] kind = "Code"        -> contract_code_decode(item)
      [] kind = "Execution"   -> execution_decode(item)

\* Request::kind
Request_kind(req) == req.kind

\* Mutant of Request_encode: a Code request is written with the id of Storage.
Request_encode_wrong_id(req) ==
    RlpList(<<Kind_encode(IF req.kind = "Code" THEN "Storage" ELSE req.kind),
              Incomplete_encode(req)>>)

\* impl Encodable for Request
Request_encode(req) ==
    RlpList(<<Kind_encode(Request_kind(req)), Incomplete_encode(req)>>)

\* impl Decodable for Request
Request_decode(item) ==
    Try(Try(at(item, 0), LAMBDA i : Kind_decode(i)), LAMBDA kind :
        Try(at(item, 1), LAMBDA i : Incomplete_decode(kind, i)))

\* An encoded header, receipt or transaction is kept as the item it is
\* made of; such an item is a list.
HeaderRaw  == RlpList(<<RlpData(<<1>>)>>)
ReceiptRaw == RlpList(<<RlpData(<<2>>)>>)
BodyRaw    == RlpList(<<RlpList(<< >>), RlpList(<< >>)>>)

\* as_val of a header, receipt or transaction: its item, when well-formed.
decode_raw(item) ==
    IF item.is_list THEN Ok(item) ELSE DecoderError("RlpExpectedToBeList")

\* as_list / list_at of headers, receipts or transactions.
decode_raw_list(item) ==
    Reads([i \in DOMAIN iter(item) |-> decode_raw(iter(item)[i])],
          LAMBDA rd : [i \in DOMAIN rd |-> rd[i].val])

\* The proof of a response as its encoders write it: begin_list(len), then
\* append_list(&item) for each item.
proof_encode(proof) == RlpList([i \in DOMAIN proof |-> append_list_u8(proof[i])])

\* header::Response
header_response_encode(res) == RlpList(res.headers)

header_response_decode(item) ==
    Try(decode_raw_list(item), LAMBDA headers :
        Ok([kind |-> "Headers", headers |-> headers]))

\* header_proof::Response
header_proof_response_encode(res) ==
    RlpList(<<proof_encode(res.proof), encode_val("H256", res.hash),
              encode_val("U256", res.td)>>)

header_proof_response_decode(item) ==
    Reads(<<list_at_bytes(item, 0), val_at("H256", item, 1), val_at("U256", item, 2)>>,
          LAMBDA rd : [kind |-> "HeaderProof", proof |-> rd[1].val,
                       hash |-> rd[2].val, td |-> rd[3].val])

\* block_receipts::Response
block_receipts_response_encode(res) == RlpList(res.receipts)

block_receipts_response_decode(item) ==
    Try(decode_raw_list(item), LAMBDA receipts :
        Ok([kind |-> "Receipts", receipts |-> receipts]))

\* block_body::Response
block_body_response_encode(res) == res.body

block_body_response_decode(item) ==
    Reads(<<Try(at(item, 0), LAMBDA i : decode_raw_list(i)),
            Try(at(item, 1), LAMBDA i : decode_raw_list(i))>>,
          LAMBDA rd : [kind |-> "Body", body |-> item])

\* account::Response
account_response_encode(res) ==
    RlpList(<<proof_encode(res.proof), encode_val("U256", res.nonce),
              encode_val("U256", res.balance), encode_val("H256", res.code_hash),
              encode_val("H256", res.storage_root)>>)

account_response_decode(item) ==
    Reads(<<list_at_bytes(item, 0), val_at("U256", item, 1), val_at("U256", item, 2),
            val_at("H256", item, 3), val_at("H256", item, 4)>>,
          LAMBDA rd : [kind |-> "Account", proof |-> rd[1].val,
                       nonce |-> rd[2].val, balance |-> rd[3].val,
                       code_hash |-> rd[4].val, storage_root |-> rd[5].val])

\* storage::Response
storage_response_encode(res) ==
    RlpList(<<proof_encode(res.proof), encode_val("H256", res.value)>>)

storage_response_decode(item) ==
    Reads(<<list_at_bytes(item, 0), val_at("H256", item, 1)>>,
          LAMBDA rd : [kind |-> "Storage", proof |-> rd[1].val, value |-> rd[2].val])

\* contract_code::Response
contract_code_response_encode(res) == encode_val("Bytes", res.code)

contract_code_response_decode(item) ==
    Try(as_val("Bytes", item), LAMBDA code : Ok([kind |-> "Code", code |-> code]))

\* execution::Response
execution_response_encode(res) ==
    RlpList([i \in DOMAIN res.items |-> encode_val("Bytes", res.items[i])])

execution_response_decode(item) ==
    Reads([i \in DOMAIN iter(item) |-> decode_bytes(iter(item)[i])],
          LAMBDA rd : [kind |-> "Execution", items |-> [i \in DOMAIN rd |-> rd[i].val]])

\* The encoding of the response inside a Response (s.append(res)).
ResponseBody_encode(res) ==
    CASE res.kind = "Headers"     -> header_response_encode(res)
      [] res.kind = "HeaderProof" -> header_proof_response_encode(res)
      [] res.kind = "Receipts"    -> block_receipts_response_encode(res)
      [] res.kind = "Body"        -> block_body_response_encode(res)
      [] res.kind = "Account"     -> account_response_encode(res)
      [] res.kind = "Storage"     -> storage_response_encode(res)
      [] res.kind = "Code"        -> contract_code_response_encode(res)
      [] res.kind = "Execution"   -> execution_response_encode(res)

\* The decoder of the response struct of a kind.
ResponseBody_decode(kind, item) ==
    CASE kind = "Headers"     -> header_response_decode(item)
      [] kind = "HeaderProof" -> header_proof_response_decode(item)
      [] kind = "Receipts"    -> block_receipts_response_decode(item)
      [] kind = "Body"        -> block_body_response_decode(item)
      [] kind = "Account"     -> account_response_decode(item)
      [] kind = "Storage"     -> storage_response_decode(item)
      [] kind = "Code"        -> contract_code_response_decode(item)
      [] kind = "Execution"   -> execution_response_decode(item)

\* Response::kind
Response_kind(res) == res.kind

\* impl Encodable for Response
Response_encode(res) ==
    RlpList(<<Kind_encode(Response_kind(res)), ResponseBody_encode(res)>>)

\* impl Decodable for Response
Response_decode(item) ==
    Try(Try(at(item, 0), LAMBDA i : Kind_decode(i)), LAMBDA kind :
        Try(at(item, 1), LAMBDA i : ResponseBody_decode(kind, i)))

\* tests::vec_test: a list of requests as the second item of [n, list].
RequestList_encode(v) ==
    RlpList(<<encode_val("usize", v.n),
              RlpList([i \in DOMAIN v.list |-> Request_encode(v.list[i])])>>)

RequestList_decode(item) ==
    Try(val_at("usize", item, 0), LAMBDA n :
        Try(at(item, 1), LAMBDA l :
            Reads([i \in DOMAIN iter(l) |-> Request_decode(iter(l)[i])],
                  LAMBDA rd : [n |-> n, list |-> [i \in DOMAIN rd |-> rd[i].val]])))

\* The largest id and discriminant in the items received.
MaxTag == 10

\* The values of the model that go through the codec.
Proofs == {<< >>, << <<1, 2>> >>}

CodecRequests == SingleRequests

CodecResponses ==
    [kind : {"Headers"}, headers : {<< >>, <<HeaderRaw>>}]
    \cup [kind : {"HeaderProof"}, proof : Proofs, hash : Hashes, td : {0, 100}]
    \cup [kind : {"Receipts"}, receipts : {<< >>, <<ReceiptRaw>>}]
    \cup [kind : {"Body"}, body : {BodyRaw}]
    \cup [kind : {"Account"}, proof : Proofs, nonce : {0}, balance : {100},
          code_hash : Hashes, storage_root : {HashOf(1)}]
    \cup [kind : {"Storage"}, proof : Proofs, value : Hashes]
    \cup [kind : {"Code"}, code : {<< >>, <<1, 2, 3>>}]
    \cup [kind : {"Execution"}, items : {<< >>, << << >>, <<1, 2>> >>}]

\* Field<T> values, for the type T of their scalar.
CodecFields(T) ==
    [type : {"Field"}, T : {T},
     val : BackReferences \cup
           (CASE T = "H256" -> {Scalar(h) : h \in Hashes}
              [] T \in {"u64", "usize"} -> {Scalar(n) : n \in Numbers \cup {0, 300}}
              [] T = "HashOrNumber" -> {Scalar(v) : v \in HashOrNumbers})]

CodecRequestLists ==
    LET e == CHOOSE r \in CodecRequests : r.kind = "Execution" /\ IsScalar(r.block_hash)
        a == CHOOSE r \in CodecRequests : r.kind = "Account" /\ IsBackReference(r.block_hash)
    IN  [n : {100}, list : {<< >>, <<e>>, <<e, e>>, <<a, e>>, <<e, a>>}]

\* rlp::encode(&val)
Codec_encode(v) ==
    CASE v.type = "Request"      -> Request_encode(v.val)
      [] v.type = "Incomplete"   -> Incomplete_encode(v.val)
      [] v.type = "Response"     -> Response_encode(v.val)
      [] v.type = "ResponseBody" -> ResponseBody_encode(v.val)
      [] v.type = "Field"        -> Field_encode(v.T, v.val)
      [] v.type = "HashOrNumber" -> HashOrNumber_encode(v.val)
      [] v.type = "RequestList"  -> RequestList_encode(v.val)

\* rlp::decode of an item as the type of the value v.
Codec_decode(v, item) ==
    CASE v.type = "Request"      -> Request_decode(item)
      [] v.type = "Incomplete"   -> Incomplete_decode(v.val.kind, item)
      [] v.type = "Response"     -> Response_decode(item)
      [] v.type = "ResponseBody" -> ResponseBody_decode(v.val.kind, item)
      [] v.type = "Field"        -> Field_decode(v.T, item)
      [] v.type = "HashOrNumber" -> HashOrNumber_decode(item)
      [] v.type = "RequestList"  -> RequestList_decode(item)

\* A list item with one more item at its end, and with its last item cut.
Longer(item)  == RlpList(Append(item.items, RlpData(<<9>>)))
Shorter(item) == RlpList(SubSeq(item.items, 1, Len(item.items) - 1))

\* The items a peer may send in place of a well-formed one: the list made
\* longer or shorter, its first item (an id, a discriminant) replaced, or
\* its second item made longer or shorter.
Received(item) ==
    IF ~item.is_list THEN {item}
    ELSE {item, Longer(item)}
         \cup (IF item.items = << >> THEN {} ELSE
               {Shorter(item)}
               \cup {RlpList([item.items EXCEPT ![1] = encode_uint(n)]) :
                        n \in 0..MaxTag})
         \cup (IF Len(item.items) >= 2 /\ item.items[2].is_list
               THEN {RlpList([item.items EXCEPT ![2] = Longer(item.items[2])])}
                    \cup (IF item.items[2].items = << >> THEN {} ELSE
                          {RlpList([item.items EXCEPT ![2] = Shorter(item.items[2])])})
               ELSE {})

CodecIdle ==
    /\ cdValue = Nil /\ cdWire = Nil /\ cdResult = Nil /\ cdOp = "idle"

CodecInit ==
    /\ \/ cdValue \in [type : {"Request", "Incomplete"}, T : {"-"}, val : CodecRequests]
       \/ cdValue \in [type : {"Response", "ResponseBody"}, T : {"-"},
                       val : CodecResponses]
       \/ \E T \in {"H256", "u64", "usize", "HashOrNumber"} : cdValue \in CodecFields(T)
       \/ cdValue \in [type : {"HashOrNumber"}, T : {"-"}, val : HashOrNumbers]
       \/ cdValue \in [type : {"RequestList"}, T : {"-"}, val : CodecRequestLists]
    /\ cdWire = Nil
    /\ cdResult = Nil
    /\ cdOp = "init"

\* The value is encoded.
CodecEncode ==
    /\ cdOp = "init"
    /\ cdWire' = Codec_encode(cdValue)
    /\ cdOp' = "encode"
    /\ UNCHANGED <<cdValue, cdResult>>
    /\ UNCHANGED <<reqVars, batchVars, voteVars, lockVars, verifyVars, ipfsVars>>

\* An item is received where the encoding of the value is expected.
CodecReceive ==
    /\ cdOp = "init"
    /\ cdWire' \in Received(Codec_encode(cdValue))
    /\ cdOp' = "receive"
    /\ UNCHANGED <<cdValue, cdResult>>
    /\ UNCHANGED <<reqVars, batchVars, voteVars, lockVars, verifyVars, ipfsVars>>

\* The item is decoded as the type of the value.
CodecDecode ==
    /\ cdOp \in {"encode", "receive"}
    /\ cdResult' = Codec_decode(cdValue, cdWire)
    /\ cdOp' = "decode"
    /\ UNCHANGED <<cdValue, cdWire>>
    /\ UNCHANGED <<reqVars, batchVars, voteVars, lockVars, verifyVars, ipfsVars>>

CodecNext == CodecEncode \/ CodecReceive \/ CodecDecode

----------------------------------------------------------------------------
(* The verifiers of on_demand/request.rs.                                  *)
(*                                                                         *)
(* The hash function, the trie, the CHT and the execution engine are not   *)
(* part of the sources at hand.  A hash is modelled as the thing hashed    *)
(* under a tag, so that no two things share a hash; a trie node names its  *)
(* children by their hashes, and a node store is the set of the nodes      *)
(* inserted, each found under its own hash alone.                          *)

\* Hashable::sha3
sha3(x) == [sha3 |-> x]

\* Option: Some(v) and None.
OptSome(v) == [some |-> TRUE, val |-> v]
OptNone    == [some |-> FALSE]

\* Err(e) of a Result.
ResultErr(e) == [ok |-> FALSE, err |-> e]

\* enum Error, a variant with its arguments in order.
VerifyError(variant, args) == [ok |-> FALSE, err |-> [variant |-> variant, args |-> args]]

\* impl From<rlp::DecoderError> for Error, impl From<Box<TrieError>> for Error
FromDecoderError(r) == VerifyError("Decoder", <<r.err>>)
FromTrieError(r)    == VerifyError("Trie", <<r.err>>)

\* Trie nodes: a leaf holds the rest of a key and a value, a branch the
\* hashes of its children by the next nibble of the key.
Leaf(key, value)  == [node |-> "leaf", key |-> key, value |-> value]
Branch(children)  == [node |-> "branch", children |-> children]

\* MemoryDB: db.insert(node) for each node of the proof.
MemoryDB(proof) == proof

\* TrieDB::new: the root must be in the store.
TrieDB_new(db, root) ==
    IF root.sha3 \in db THEN OkUnit
    ELSE [ok |-> FALSE, err |-> "InvalidStateRoot"]

\* TrieDB::get: the walk from a node along the nibbles of the key.
RECURSIVE TrieDB_get(_, _, _)
TrieDB_get(db, hash, path) ==
    IF hash.sha3 \notin db THEN [ok |-> FALSE, err |-> "IncompleteDatabase"]
    ELSE IF hash.sha3.node = "leaf"
    THEN IF hash.sha3.key = path THEN Ok(OptSome(hash.sha3.value)) ELSE Ok(OptNone)
    ELSE IF path = << >> THEN Ok(OptNone)
    ELSE IF Head(path) \in DOMAIN hash.sha3.children
    THEN TrieDB_get(db, hash.sha3.children[Head(path)], Tail(path))
    ELSE Ok(OptNone)

\* The addresses looked up and the nibbles of the hash of each.
VerifyAddresses == {"a1", "a2", "a3", "a4"}
KeyOf(address) ==
    CASE address = "a1" -> <<0, 0>> [] address = "a2" -> <<0, 1>>
      [] address = "a3" -> <<1, 0>> [] address = "a4" -> <<1, 1>>

\* An account as the leaf of the state trie holds it.
BasicAccount(nonce, balance, storage_root, code_hash) ==
    [nonce |-> nonce, balance |-> balance, storage_root |-> storage_root,
     code_hash |-> code_hash]
AccountRlp(acc) ==
    RlpList(<<encode_uint(acc.nonce), encode_uint(acc.balance),
              encode_fixed(acc.storage_root), encode_fixed(acc.code_hash)>>)

\* Two states.  In the first a1 has an account, a2 and a3 have none (a2 for
\* lack of a child in a branch, a3 because the leaf on its way holds another
\* key) and the leaf of a4 holds a value that is no account.  In the second
\* a1 has another account and nothing else is there.
Account1 == BasicAccount(2, 100, HashOf(1), HashOf(2))
Account2 == BasicAccount(3, 0, HashOf(2), HashOf(1))
LeafA1   == Leaf(<< >>, AccountRlp(Account1))
BranchA  == Branch(0 :> sha3(LeafA1))
LeafA4   == Leaf(<<1>>, RlpList(<<encode_uint(2), encode_uint(100)>>))
RootA    == Branch(0 :> sha3(BranchA) @@ 1 :> sha3(LeafA4))
LeafB1   == Leaf(<<0>>, AccountRlp(Account2))
RootB    == Branch(0 :> sha3(LeafB1))
StateNodes == {RootA, BranchA, LeafA1, LeafA4, RootB, LeafB1}

\* A header, of which the verifiers read the roots.
VerifyHeader(state_root) == [state_root |-> state_root]

\* Account::check_response
Account_check_response(req, proof) ==
    IF ~TrieDB_new(MemoryDB(proof), req.header.state_root).ok
    THEN FromTrieError(TrieDB_new(MemoryDB(proof), req.header.state_root))
    ELSE IF ~TrieDB_get(MemoryDB(proof), req.header.state_root, KeyOf(req.address)).ok
    THEN FromTrieError(TrieDB_get(MemoryDB(proof), req.header.state_root,
                                  KeyOf(req.address)))
    ELSE Try(TrieDB_get(MemoryDB(proof), req.header.state_root, KeyOf(req.address)),
             LAMBDA found :
                IF ~found.some THEN Ok(OptNone)
                ELSE IF ~AllOk(<<val_at("U256", found.val, 0), val_at("U256", found.val, 1),
                                 val_at("H256", found.val, 2), val_at("H256", found.val, 3)>>)
                THEN FromDecoderError(
                        FirstError(<<val_at("U256", found.val, 0), val_at("U256", found.val, 1),
                                     val_at("H256", found.val, 2), val_at("H256", found.val, 3)>>))
                ELSE Ok(OptSome(BasicAccount(val_at("U256", found.val, 0).val,
                                             val_at("U256", found.val, 1).val,
                                             val_at("H256", found.val, 2).val,
                                             val_at("H256", found.val, 3).val))))

VerifyIdle == vfCall = Nil

\* check_response of an Account request on a proof: any set of nodes of the
\* two states, for a header of either state.  A behaviour is one call.
AccountCheckResponse ==
    /\ vfCall = Nil
    /\ \E root \in {sha3(RootA), sha3(RootB)}, address \in VerifyAddresses,
          proof \in SUBSET StateNodes :
          LET req == [header |-> VerifyHeader(root), address |-> address] IN
          vfCall' = [op |-> "Account::check_response", req |-> req, response |-> proof,
                     result |-> Account_check_response(req, proof)]
    /\ UNCHANGED <<reqVars, batchVars, voteVars, lockVars, codecVars, ipfsVars>>

\* util::triehash::ordered_trie_root: the root of the trie that holds the
\* items under their indices.
ordered_trie_root(items) == sha3([ordered_trie |-> items])

\* rlp::encode of a receipt.
rlp_encode(thing) == [rlp |-> thing]

\* The parts blocks are made of.
TxLists      == {<< >>, <<"t1">>, <<"t1", "t2">>, <<"t2", "t1">>}
UncleLists   == {<< >>, <<"u1">>}
ReceiptLists == {<< >>, <<"r1">>, <<"r1", "r2">>, <<"r2", "r1">>}
Codes        == {<< >>, <<96>>, <<96, 0>>}

\* The receipts as ordered_trie_root is given them.
EncodedReceipts(receipts) == [i \in DOMAIN receipts |-> rlp_encode(receipts[i])]

\* encoded::Header and encoded::Body.  The header of a block holds the root
\* of its transactions, the hash of its uncle list and the root of its
\* receipts; a body is the list of the transaction list and the uncle list.
BlockHeader(transactions, uncles, receipts) ==
    [transactions_root |-> ordered_trie_root(transactions),
     uncles_hash       |-> sha3(uncles),
     receipts_root     |-> ordered_trie_root(EncodedReceipts(receipts))]
BlockBody(transactions, uncles) == <<transactions, uncles>>

BlockHeaders == {BlockHeader(t, u, r) : t \in TxLists, u \in UncleLists,
                                        r \in {<< >>, <<"r1", "r2">>}}
BlockBodies  == {BlockBody(t, u) : t \in TxLists, u \in UncleLists}

\* Rlp::as_raw: the encoding of an item as it stands, which holds that one
\* item, its own list prefix included.
as_raw(item) == <<item>>

\* The unit value ().
Unit == << >>

\* HeaderByHash::check_response
HeaderByHash_check_response(req, header) ==
    IF sha3(header) = req.hash THEN Ok(header)
    ELSE VerifyError("WrongHash", <<req.hash, sha3(header)>>)

\* Body::check_response comparing the uncles before the transactions.
Body_check_response_uncles_first(req, body) ==
    IF sha3(body[2]) # req.header.uncles_hash
    THEN VerifyError("WrongHash", <<req.header.uncles_hash, sha3(body[2])>>)
    ELSE IF ordered_trie_root(body[1]) # req.header.transactions_root
    THEN VerifyError("WrongTrieRoot",
                     <<req.header.transactions_root, ordered_trie_root(body[1])>>)
    ELSE Ok(as_raw(req.header) \o as_raw(body))

\* Body::check_response: the transactions are the first item of the body
\* and the uncles the second; the block is the list that holds the raw
\* header followed by the raw body.
Body_check_response(req, body) ==
    IF ordered_trie_root(body[1]) # req.header.transactions_root
    THEN VerifyError("WrongTrieRoot",
                     <<req.header.transactions_root, ordered_trie_root(body[1])>>)
    ELSE IF sha3(body[2]) # req.header.uncles_hash
    THEN VerifyError("WrongHash", <<req.header.uncles_hash, sha3(body[2])>>)
    ELSE Ok(as_raw(req.header) \o as_raw(body))

\* BlockReceipts::check_response
BlockReceipts_check_response(req, receipts) ==
    IF req.header.receipts_root = ordered_trie_root(EncodedReceipts(receipts))
    THEN Ok(receipts)
    ELSE VerifyError("WrongTrieRoot",
                     <<req.header.receipts_root,
                       ordered_trie_root(EncodedReceipts(receipts))>>)

\* Code::check_response handing the code back.
Code_check_response_with_code(req, code) ==
    IF sha3(code) = req.code_hash THEN Ok(code)
    ELSE VerifyError("WrongHash", <<req.code_hash, sha3(code)>>)

\* Code::check_response
Code_check_response(req, code) ==
    IF sha3(code) = req.code_hash THEN Ok(Unit)
    ELSE VerifyError("WrongHash", <<req.code_hash, sha3(code)>>)

\* cht::SIZE, the number of blocks a CHT covers, and the highest block.
ChtSize  == 2
MaxBlock == 4

\* cht::block_to_cht_number: none for the genesis, which no CHT covers.
block_to_cht_number(num) ==
    IF num = 0 THEN OptNone ELSE OptSome((num - 1) \div ChtSize)

\* The blocks of a CHT, the hash and the total difficulty of a block, and
\* the CHT itself: a root that has a leaf for each of its blocks, the value
\* of which is the list of the hash and the total difficulty.
ChtBlocks(cht_num) == {n \in 1..MaxBlock : block_to_cht_number(n).val = cht_num}
BlockHash(num) == HashOf(num)
TotalDifficulty(num) == 10 * num
ChtValue(hash, td) == RlpList(<<encode_fixed(hash), encode_uint(td)>>)
ChtLeaf(num) == Leaf(<< >>, ChtValue(BlockHash(num), TotalDifficulty(num)))
ChtTrie(cht_num) == Branch([n \in ChtBlocks(cht_num) |-> sha3(ChtLeaf(n))])

\* A tree whose one leaf lacks the total difficulty.
ChtBadLeaf == Leaf(<< >>, RlpList(<<encode_fixed(BlockHash(1))>>))
ChtBadTrie == Branch(1 :> sha3(ChtBadLeaf))

ChtNums  == {block_to_cht_number(n).val : n \in 1..MaxBlock}
ChtRoots == {sha3(ChtTrie(c)) : c \in ChtNums} \cup {sha3(ChtBadTrie)}
ChtNodes == {ChtTrie(c) : c \in ChtNums} \cup {ChtLeaf(n) : n \in 1..MaxBlock}
            \cup {ChtBadTrie, ChtBadLeaf}

\* cht::check_proof: the value under the key of the block in the trie of
\* the proof's nodes, read as the pair of hash and total difficulty; none
\* for a failure of any kind.
cht_check_proof(proof, num, root) ==
    IF ~TrieDB_new(MemoryDB(proof), root).ok THEN OptNone
    ELSE IF ~TrieDB_get(MemoryDB(proof), root, <<num>>).ok THEN OptNone
    ELSE IF ~TrieDB_get(MemoryDB(proof), root, <<num>>).val.some THEN OptNone
    ELSE IF ~AllOk(<<val_at("H256", TrieDB_get(MemoryDB(proof), root, <<num>>).val.val, 0),
                     val_at("U256", TrieDB_get(MemoryDB(proof), root, <<num>>).val.val, 1)>>)
    THEN OptNone
    ELSE OptSome(<<val_at("H256", TrieDB_get(MemoryDB(proof), root, <<num>>).val.val, 0).val,
                   val_at("U256", TrieDB_get(MemoryDB(proof), root, <<num>>).val.val, 1).val>>)

\* HeaderProof::new
HeaderProof_new(num, cht_root) ==
    IF block_to_cht_number(num).some
    THEN OptSome([num |-> num, cht_num |-> block_to_cht_number(num).val,
                  cht_root |-> cht_root])
    ELSE OptNone

\* HeaderProof::check_response reading the proof for the first block of the
\* CHT in place of the block asked for.
HeaderProof_check_response_of_first(req, proof) ==
    IF cht_check_proof(proof, req.cht_num * ChtSize + 1, req.cht_root).some
    THEN Ok(cht_check_proof(proof, req.cht_num * ChtSize + 1, req.cht_root).val)
    ELSE VerifyError("BadProof", << >>)

\* HeaderProof::check_response
HeaderProof_check_response(req, proof) ==
    IF cht_check_proof(proof, req.num, req.cht_root).some
    THEN Ok(cht_check_proof(proof, req.num, req.cht_root).val)
    ELSE VerifyError("BadProof", << >>)

\* ProvedExecution: BadProof, Failed(ExecutionError) and Complete(Executed).
ProvedBadProof      == [proved |-> "BadProof"]
ProvedFailed(e)     == [proved |-> "Failed", error |-> e]
ProvedComplete(exe) == [proved |-> "Complete", executed |-> exe]

\* The transactions executed: a transfer of a value by a sender whose leaf,
\* if the state has one, is an account.
TxSenders == {"a1", "a2", "a3"}
TxValues  == {0, 50, 200}
Transactions == [sender : TxSenders, value : TxValues]

\* What the engine returns for a transfer the sender can pay.
Executed(tx) ==
    [output |-> <<tx.value>>, gas_used |-> 21, refunded |-> IF tx.value = 0 THEN 0 ELSE 3]

\* state::check_proof: the engine executes the transaction on the state of
\* the witness.  It reads the account of the sender, which is a bad proof
\* when the witness lacks a node on the way to it; a sender that has not the
\* value to send is an error of the execution.
state_check_proof(state_items, root, tx) ==
    IF ~TrieDB_new(MemoryDB(state_items), root).ok THEN ProvedBadProof
    ELSE IF ~TrieDB_get(MemoryDB(state_items), root, KeyOf(tx.sender)).ok
    THEN ProvedBadProof
    ELSE IF ~TrieDB_get(MemoryDB(state_items), root, KeyOf(tx.sender)).val.some
    THEN IF tx.value > 0
         THEN ProvedFailed([error |-> "NotEnoughCash", required |-> tx.value, got |-> 0])
         ELSE ProvedComplete(Executed(tx))
    ELSE IF val_at("U256", TrieDB_get(MemoryDB(state_items), root,
                                      KeyOf(tx.sender)).val.val, 1).val < tx.value
    THEN ProvedFailed([error |-> "NotEnoughCash", required |-> tx.value,
                       got |-> val_at("U256", TrieDB_get(MemoryDB(state_items), root,
                                                         KeyOf(tx.sender)).val.val, 1).val])
    ELSE ProvedComplete(Executed(tx))

\* TransactionProof::check_response
TransactionProof_check_response(req, state_items) ==
    state_check_proof(state_items, req.header.state_root, req.tx)

\* OnDemand::transaction_proof: the response of a peer is verified; a bad
\* proof delivers nothing, an execution that failed delivers the error and
\* one that completed delivers what was executed, both as ExecutionResult.
transaction_proof(req, state_items) ==
    IF TransactionProof_check_response(req, state_items).proved = "BadProof" THEN OptNone
    ELSE IF TransactionProof_check_response(req, state_items).proved = "Failed"
    THEN OptSome(ResultErr(TransactionProof_check_response(req, state_items).error))
    ELSE OptSome(Ok(TransactionProof_check_response(req, state_items).executed))

\* errors::execution
errors_execution(e) == ResultErr([code |-> "EXECUTION_ERROR", data |-> e])

\* A future that has not resolved.
Pending == [pending |-> TRUE]

\* EthClient::call with an error of the execution reported as a proof that
\* failed.
call_as_bad_proof(req, state_items) ==
    IF ~transaction_proof(req, state_items).some THEN Pending
    ELSE IF transaction_proof(req, state_items).val.ok
    THEN Ok(transaction_proof(req, state_items).val.val.output)
    ELSE ResultErr([code |-> "BAD_PROOF", data |-> << >>])

\* EthClient::call: the output of the execution proved.
call(req, state_items) ==
    IF ~transaction_proof(req, state_items).some THEN Pending
    ELSE IF transaction_proof(req, state_items).val.ok
    THEN Ok(transaction_proof(req, state_items).val.val.output)
    ELSE errors_execution(transaction_proof(req, state_items).val.err)

\* EthClient::estimate_gas: the gas refunded and the gas used.
estimate_gas(req, state_items) ==
    IF ~transaction_proof(req, state_items).some THEN Pending
    ELSE IF transaction_proof(req, state_items).val.ok
    THEN Ok(transaction_proof(req, state_items).val.val.refunded
            + transaction_proof(req, state_items).val.val.gas_used)
    ELSE errors_execution(transaction_proof(req, state_items).val.err)

\* The call of a verifier on a response, with what it returned.
Checked(op, req, response, result) ==
    [op |-> op, req |-> req, response |-> response, result |-> result]

\* check_response of a HeaderByHash request on a header received.
HeaderByHashCheckResponse ==
    /\ vfCall = Nil
    /\ \E expected \in BlockHeaders, header \in BlockHeaders :
          vfCall' = Checked("HeaderByHash::check_response", [hash |-> sha3(expected)],
                            header,
                            HeaderByHash_check_response([hash |-> sha3(expected)], header))
    /\ UNCHANGED <<reqVars, batchVars, voteVars, lockVars, codecVars, ipfsVars>>

\* check_response of a Body request on a body received.
BodyCheckResponse ==
    /\ vfCall = Nil
    /\ \E header \in BlockHeaders, body \in BlockBodies :
          vfCall' = Checked("Body::check_response", [header |-> header], body,
                            Body_check_response([header |-> header], body))
    /\ UNCHANGED <<reqVars, batchVars, voteVars, lockVars, codecVars, ipfsVars>>

\* check_response of a BlockReceipts request on the receipts received.
BlockReceiptsCheckResponse ==
    /\ vfCall = Nil
    /\ \E header \in BlockHeaders, receipts \in ReceiptLists :
          vfCall' = Checked("BlockReceipts::check_response", [header |-> header],
                            receipts,
                            BlockReceipts_check_response([header |-> header], receipts))
    /\ UNCHANGED <<reqVars, batchVars, voteVars, lockVars, codecVars, ipfsVars>>

\* check_response of a Code request on the code received.
CodeCheckResponse ==
    /\ vfCall = Nil
    /\ \E expected \in Codes, code \in Codes :
          vfCall' = Checked("Code::check_response", [code_hash |-> sha3(expected)], code,
                            Code_check_response([code_hash |-> sha3(expected)], code))
    /\ UNCHANGED <<reqVars, batchVars, voteVars, lockVars, codecVars, ipfsVars>>

\* HeaderProof::new on a block number and the root of a CHT.
HeaderProofNew ==
    /\ vfCall = Nil
    /\ \E num \in 0..MaxBlock, cht_root \in ChtRoots :
          vfCall' = Checked("HeaderProof::new", [num |-> num, cht_root |-> cht_root],
                            Nil, HeaderProof_new(num, cht_root))
    /\ UNCHANGED <<reqVars, batchVars, voteVars, lockVars, codecVars, ipfsVars>>

\* check_response of a HeaderProof request, which only new makes, on a
\* proof: any set of the nodes of the CHTs.
HeaderProofCheckResponse ==
    /\ vfCall = Nil
    /\ \E num \in 1..MaxBlock, cht_root \in ChtRoots, proof \in SUBSET ChtNodes :
          vfCall' = Checked("HeaderProof::check_response",
                            HeaderProof_new(num, cht_root).val, proof,
                            HeaderProof_check_response(HeaderProof_new(num, cht_root).val,
                                                       proof))
    /\ UNCHANGED <<reqVars, batchVars, voteVars, lockVars, codecVars, ipfsVars>>

\* The requests for the proof of an execution, under either state.
TransactionProofs ==
    {[tx |-> tx, header |-> VerifyHeader(root)] :
        tx \in Transactions, root \in {sha3(RootA), sha3(RootB)}}

\* check_response of a TransactionProof request on the witness received.
TransactionProofCheckResponse ==
    /\ vfCall = Nil
    /\ \E req \in TransactionProofs, state_items \in SUBSET StateNodes :
          vfCall' = Checked("TransactionProof::check_response", req, state_items,
                            TransactionProof_check_response(req, state_items))
    /\ UNCHANGED <<reqVars, batchVars, voteVars, lockVars, codecVars, ipfsVars>>

\* eth_call and eth_estimateGas, for which a peer answers with a witness.
Call ==
    /\ vfCall = Nil
    /\ \E req \in TransactionProofs, state_items \in SUBSET StateNodes :
          vfCall' = Checked("call", req, state_items, call(req, state_items))
    /\ UNCHANGED <<reqVars, batchVars, voteVars, lockVars, codecVars, ipfsVars>>

EstimateGas ==
    /\ vfCall = Nil
    /\ \E req \in TransactionProofs, state_items \in SUBSET StateNodes :
          vfCall' = Checked("estimate_gas", req, state_items,
                            estimate_gas(req, state_items))
    /\ UNCHANGED <<reqVars, batchVars, voteVars, lockVars, codecVars, ipfsVars>>

VerifyNext ==
    \/ AccountCheckResponse
    \/ HeaderByHashCheckResponse
    \/ BodyCheckResponse
    \/ BlockReceiptsCheckResponse
    \/ CodeCheckResponse
    \/ HeaderProofNew
    \/ HeaderProofCheckResponse
    \/ TransactionProofCheckResponse
    \/ Call
    \/ EstimateGas

----------------------------------------------------------------------------
(* The pricing of the built-in contracts (ethcore/src/builtin.rs).         *)
(*                                                                         *)
(* A word of the input is WordLen bytes where the code has 32, and U256 is *)
(* the unsigned integer of that many bytes.                                *)

\* The bytes of a word and of the longest input.
WordLen  == 1
MaxInput == 4

\* U256::max_value()
U256_max_value == 256^WordLen - 1

\* U256::overflowing_mul: the product wrapped, and whether it wrapped.
overflowing_mul(a, b) ==
    [val |-> (a * b) % (U256_max_value + 1), overflow |-> a * b > U256_max_value]

\* cmp::max
max(a, b) == IF a >= b THEN a ELSE b

\* The byte at a position of input.chain(io::repeat(0)), positions from 0.
ZeroExtended(input, pos) == IF pos < Len(input) THEN input[pos + 1] ELSE 0

\* read_len, called for the k-th time (k from 0): the next word, big-endian.
RECURSIVE WordAt(_, _, _)
WordAt(input, from, len) ==
    IF len = 0 THEN 0
    ELSE 256 * WordAt(input, from, len - 1) + ZeroExtended(input, from + len - 1)
read_len(input, k) == WordAt(input, k * WordLen, WordLen)

\* Modexp::cost with the products left to wrap.
Modexp_cost_wrapping(pricer, input) ==
    overflowing_mul(
        overflowing_mul(max(read_len(input, 2), read_len(input, 0)),
                        max(read_len(input, 2), read_len(input, 0))).val,
        max(read_len(input, 1), 1)).val \div pricer.divisor

\* impl Pricer for Modexp: cost
Modexp_cost(pricer, input) ==
    IF overflowing_mul(max(read_len(input, 2), read_len(input, 0)),
                       max(read_len(input, 2), read_len(input, 0))).overflow
    THEN U256_max_value
    ELSE IF overflowing_mul(
                overflowing_mul(max(read_len(input, 2), read_len(input, 0)),
                                max(read_len(input, 2), read_len(input, 0))).val,
                max(read_len(input, 1), 1)).overflow
    THEN U256_max_value
    ELSE overflowing_mul(
            overflowing_mul(max(read_len(input, 2), read_len(input, 0)),
                            max(read_len(input, 2), read_len(input, 0))).val,
            max(read_len(input, 1), 1)).val \div pricer.divisor

\* impl From<ethjson::spec::Builtin> for Builtin, the pricer of a modexp
\* pricing: a divisor of zero falls back to the default.
Builtin_from(pricing) ==
    [divisor |-> IF pricing.divisor = 0 THEN 10 ELSE pricing.divisor]

\* The divisors of the chain specification and the bytes of the inputs.
SpecDivisors == {0, 1, 10, 20}
InputBytes   == {0, 1, 3, 10, 16, 100}
RECURSIVE InputsOfLen(_)
InputsOfLen(n) ==
    IF n = 0 THEN {<< >>}
    ELSE {Append(i, b) : i \in InputsOfLen(n - 1), b \in InputBytes}
BuiltinInputs == UNION {InputsOfLen(n) : n \in 0..MaxInput}

\* Builtin::cost of a modexp built-in made from its specification.
BuiltinCost ==
    /\ vfCall = Nil
    /\ \E divisor \in SpecDivisors, input \in BuiltinInputs :
          vfCall' = Checked("Builtin::cost", [pricing |-> [divisor |-> divisor]], input,
                            Modexp_cost(Builtin_from([divisor |-> divisor]), input))
    /\ UNCHANGED <<reqVars, batchVars, voteVars, lockVars, codecVars, ipfsVars>>

----------------------------------------------------------------------------
(* The modular exponentiation built-in (ethcore/src/builtin.rs).           *)
(*                                                                         *)
(* The input is three words, the lengths of base, exponent and modulus,    *)
(* and then the three numbers, big-endian, read from the input extended    *)
(* with zeros.  The lengths are read from the last eight bytes of their    *)
(* word; the words here are no longer than that.                           *)

\* Longest base, exponent and modulus, in bytes.
MaxNumLen == 1

\* The bytes of the numbers.
NumBytes == {0, 1, 2, 3}

\* BigUint::from_bytes_be of the len bytes at from.
from_bytes_be(input, from, len) == WordAt(input, from, len)

\* BigUint::to_bytes_be: the shortest big-endian bytes, one zero byte for 0.
RECURSIVE to_bytes_be(_)
to_bytes_be(n) ==
    IF n < 256 THEN <<n>> ELSE Append(to_bytes_be(n \div 256), n % 256)

\* The loop of modexp: exponentiation by squaring.
RECURSIVE modexp_loop(_, _, _, _)
modexp_loop(result, base, exp, modulus) ==
    IF exp = 0 THEN result
    ELSE modexp_loop(IF exp % 2 = 1 THEN (result * base) % modulus ELSE result,
                     (base * base) % modulus, exp \div 2, modulus)

\* fn modexp of ModexpImpl::execute
modexp(base, exp, modulus) ==
    IF exp = 0 THEN 1
    ELSE IF base = 0 THEN 0
    ELSE IF modulus <= 1 THEN 0
    ELSE IF base % modulus = 0 THEN 1
    ELSE modexp_loop(1, base % modulus, exp, modulus)

\* BytesRef::write on a buffer of fixed length: the bytes are copied to the
\* offset, as far as the buffer goes.
BytesRef_write(output, offset, bytes) ==
    [i \in DOMAIN output |->
        IF i > offset /\ i <= offset + Len(bytes) THEN bytes[i - offset] ELSE output[i]]

\* ModexpImpl::execute on an output of zeros: the output after the call and
\* whether it was written to.
Modexp_execute(input, output) ==
    LET base_len == read_len(input, 0)
        exp_len  == read_len(input, 1)
        mod_len  == read_len(input, 2)
        bytes == to_bytes_be(
                    modexp(from_bytes_be(input, 3 * WordLen, base_len),
                           from_bytes_be(input, 3 * WordLen + base_len, exp_len),
                           from_bytes_be(input, 3 * WordLen + base_len + exp_len,
                                         mod_len)))
    IN  IF Len(bytes) <= mod_len
        THEN [output |-> BytesRef_write(output, mod_len - Len(bytes), bytes),
              written |-> TRUE]
        ELSE [output |-> output, written |-> FALSE]

\* A length as a word of the input.
RECURSIVE LenWord(_, _)
LenWord(n, len) ==
    IF len = 0 THEN << >> ELSE Append(LenWord(n \div 256, len - 1), n % 256)

\* The numbers of n bytes.
RECURSIVE NumsOfLen(_)
NumsOfLen(n) ==
    IF n = 0 THEN {<< >>}
    ELSE {Append(i, b) : i \in NumsOfLen(n - 1), b \in NumBytes}
Nums == UNION {NumsOfLen(n) : n \in 0..MaxNumLen}

\* The inputs of the built-in: the three lengths and the three numbers, as
\* sent or with the last byte left out.
ModexpInputs ==
    LET whole == {LenWord(Len(b), WordLen) \o LenWord(Len(e), WordLen)
                    \o LenWord(Len(m), WordLen) \o b \o e \o m :
                        b \in Nums, e \in Nums, m \in Nums}
    IN  whole \cup {SubSeq(i, 1, Len(i) - 1) : i \in whole}

\* Builtin::execute of the modexp built-in, on an output of mod_len zeros.
BuiltinExecute ==
    /\ vfCall = Nil
    /\ \E input \in ModexpInputs :
          vfCall' = Checked("Builtin::execute", [name |-> "modexp"], input,
                            Modexp_execute(input, [i \in 1..read_len(input, 2) |-> 0]))
    /\ UNCHANGED <<reqVars, batchVars, voteVars, lockVars, codecVars, ipfsVars>>

BuiltinNext == BuiltinCost

----------------------------------------------------------------------------
(* The response of the IPFS handler (ipfs/src/lib.rs).                     *)
(*                                                                         *)
(* The handler is asked to write whenever the transport is writable, until *)
(* it answers Next::end().  The transport is any std::io::Write: a write   *)
(* accepts a prefix of what it is offered, or fails having accepted        *)
(* nothing.                                                                *)

\* Longest response.
MaxData == 3

\* The bytes of the responses: 'f' and 'o'.
DataBytes == {102, 111}

\* The responses: the bytes of Out::OctetStream, or of the reason of
\* Out::NotFound and Out::Bad.
Datas == UNION {[1..n -> DataBytes] : n \in 0..MaxData}

\* io::Result<usize> of a write of chunk: Ok(n) with n <= chunk.len(), or an
\* error.
WriteResults(chunk) == {Ok(n) : n \in 0..Len(chunk)} \cup {ResultErr("io::Error")}

\* Write::write: the transport after a write of chunk that returned res.
transport_write(transport, chunk, res) ==
    IF res.ok THEN transport \o SubSeq(chunk, 1, res.val) ELSE transport

\* Mutant of write_chunk: the bytes already written are not skipped.
write_chunk_from_start(transport, progress, data, res) ==
    LET chunk == data IN
    IF ~res.ok
    THEN [transport |-> transport_write(transport, chunk, res),
          progress |-> progress, next |-> "end"]
    ELSE [transport |-> transport_write(transport, chunk, res),
          progress |-> progress + res.val,
          next |-> IF res.val < Len(chunk) THEN "write" ELSE "end"]

\* write_chunk, for a transport whose write returns res: the transport and
\* the progress after the call, and the Next returned.
write_chunk(transport, progress, data, res) ==
    LET chunk == SubSeq(data, progress + 1, Len(data)) IN
    IF ~res.ok
    THEN [transport |-> transport_write(transport, chunk, res),
          progress |-> progress, next |-> "end"]
    ELSE [transport |-> transport_write(transport, chunk, res),
          progress |-> progress + res.val,
          next |-> IF res.val < Len(chunk) THEN "write" ELSE "end"]

IpfsIdle ==
    /\ ipOut = << >> /\ ipProgress = 0 /\ ipTransport = << >>
    /\ ipNext = "idle" /\ ipWritten = Nil

\* IpfsHandler::new and on_response: out_progress is 0 and the handler has
\* asked to write.
IpfsInit ==
    /\ ipOut \in Datas
    /\ ipProgress = 0
    /\ ipTransport = << >>
    /\ ipNext = "write"
    /\ ipWritten = Nil

\* on_response_writable: write_chunk on the bytes of the response, for
\* every result the write of the transport may return.
OnResponseWritable ==
    /\ ipNext = "write"
    /\ \E res \in WriteResults(SubSeq(ipOut, ipProgress + 1, Len(ipOut))) :
          LET after == write_chunk(ipTransport, ipProgress, ipOut, res) IN
          /\ ipTransport' = after.transport
          /\ ipProgress' = after.progress
          /\ ipNext' = after.next
          /\ ipWritten' = [offered |-> Len(ipOut) - ipProgress, result |-> res]
    /\ UNCHANGED ipOut
    /\ UNCHANGED <<reqVars, batchVars, voteVars, lockVars, codecVars, verifyVars>>

IpfsNext == OnResponseWritable

----------------------------------------------------------------------------
(* Ethash: the difficulty and the gas limit of a new block                 *)
(* (ethcore/src/ethereum/ethash.rs).  Gas limits are U256 values; the      *)
(* model keeps them small, with gas_limit_bound_divisor small in step, so  *)
(* that parent / bound_divisor runs from zero to a few multiples of the    *)
(* rounding determinant.                                                   *)

PARITY_GAS_LIMIT_DETERMINANT == 37
EXP_DIFF_PERIOD == 100000

\* The largest parent gas limit the model proposes.
MaxGas == 90

\* The defaults of the transitions and of max_gas_limit, u64::max_value()
\* and U256::max_value() in the code: above every block number and every
\* gas limit of the model.
transition_default == 1000000
max_gas_limit_default == 1000000000

min(a, b) == IF a <= b THEN a ELSE b

RECURSIVE shl_one(_)
shl_one(n) == IF n <= 0 THEN 1 ELSE 2 * shl_one(n - 1)

\* The chain's parameters (EthashParams): the gas limit divisor, the
\* difficulty parameters and the gas limit cap with its transition block.
GasLimitBoundDivisors == {2, 8}
EthashParamsOf(divisor, homestead, transition, cap) ==
    [gas_limit_bound_divisor          |-> divisor,
     minimum_difficulty               |-> 16,
     difficulty_bound_divisor         |-> 4,
     difficulty_increment_divisor     |-> 10,
     duration_limit                   |-> 13,
     homestead_transition             |-> homestead,
     difficulty_hardfork_transition   |-> transition_default,
     difficulty_hardfork_bound_divisor |-> 4,
     bomb_defuse_transition           |-> transition_default,
     ecip1010_pause_transition        |-> transition_default,
     ecip1010_continue_transition     |-> transition_default,
     max_gas_limit_transition         |-> transition,
     max_gas_limit                    |-> cap]

EthashParamsSet ==
    {EthashParamsOf(d, h, lim[1], lim[2]) :
        d \in GasLimitBoundDivisors, h \in {0, 2},
        lim \in {<<transition_default, max_gas_limit_default>>,
                 <<2, MaxGas \div 2>>}}

\* fn calculate_difficulty: the parent's difficulty moved by one step of the
\* bound divisor according to the two timestamps, not below the minimum,
\* plus the exponential term of the period the parent is in.
calculate_difficulty(params, header, parent) ==
    LET min_difficulty == params.minimum_difficulty
        difficulty_hardfork ==
            header.number >= params.difficulty_hardfork_transition
        difficulty_bound_divisor ==
            IF difficulty_hardfork
            THEN params.difficulty_hardfork_bound_divisor
            ELSE params.difficulty_bound_divisor
        duration_limit == params.duration_limit
        frontier_limit == params.homestead_transition
        diff_inc == (header.timestamp - parent.timestamp)
                        \div params.difficulty_increment_divisor
        first_target ==
            IF header.number < frontier_limit
            THEN IF header.timestamp >= parent.timestamp + duration_limit
                 THEN parent.difficulty
                        - (parent.difficulty \div difficulty_bound_divisor)
                 ELSE parent.difficulty
                        + (parent.difficulty \div difficulty_bound_divisor)
            ELSE IF diff_inc <= 1
                 THEN parent.difficulty
                        + (parent.difficulty \div difficulty_bound_divisor)
                            * (1 - diff_inc)
                 ELSE parent.difficulty
                        - (parent.difficulty \div difficulty_bound_divisor)
                            * min(diff_inc - 1, 99)
        target == max(min_difficulty, first_target)
        period == (parent.number + 1) \div EXP_DIFF_PERIOD
    IN  IF header.number < params.bomb_defuse_transition
        THEN IF header.number < params.ecip1010_pause_transition
             THEN IF period > 1
                  THEN max(min_difficulty, target + shl_one(period - 2))
                  ELSE target
             ELSE IF header.number < params.ecip1010_continue_transition
                  THEN max(min_difficulty,
                           target + shl_one((params.ecip1010_pause_transition
                                                \div EXP_DIFF_PERIOD) - 2))
                  ELSE max(min_difficulty,
                           target + shl_one(period
                               - ((params.ecip1010_continue_transition
                                     - params.ecip1010_pause_transition)
                                        \div EXP_DIFF_PERIOD) - 2))
        ELSE target

round_block_gas_limit_upwards(gas_limit, lower_limit, upper_limit) ==
    gas_limit + (PARITY_GAS_LIMIT_DETERMINANT
                    - (gas_limit % PARITY_GAS_LIMIT_DETERMINANT))

\* fn round_block_gas_limit: the next multiple of the determinant above
\* gas_limit when it is not above upper_limit, else the multiple below it
\* when that is not under lower_limit, else gas_limit itself.
round_block_gas_limit(gas_limit, lower_limit, upper_limit) ==
    LET increased_gas_limit ==
            gas_limit + (PARITY_GAS_LIMIT_DETERMINANT
                            - (gas_limit % PARITY_GAS_LIMIT_DETERMINANT))
    IN  IF increased_gas_limit > upper_limit
        THEN LET decreased_gas_limit ==
                     increased_gas_limit - PARITY_GAS_LIMIT_DETERMINANT
             IN  IF decreased_gas_limit < lower_limit
                 THEN gas_limit
                 ELSE decreased_gas_limit
        ELSE increased_gas_limit

\* The ceiling target populate_from_parent works with: the caller's, or
\* max_gas_limit from the transition block on when the caller's is above it.
limited_gas_ceil_target(params, header, gas_ceil_target) ==
    IF header.number >= params.max_gas_limit_transition
       /\ gas_ceil_target > params.max_gas_limit
    THEN params.max_gas_limit
    ELSE gas_ceil_target

\* The two protocol limits populate_from_parent computes from the parent's
\* gas limit.  The subtraction of one is a U256 subtraction: at a sum of
\* zero it overflows (under is TRUE) and the operator panics.
gas_limit_bounds(params, parent) ==
    LET gas_limit == parent.gas_limit
        bound_divisor == params.gas_limit_bound_divisor
    IN  [lower_limit |-> gas_limit - gas_limit \div bound_divisor + 1,
         upper_limit |-> gas_limit + gas_limit \div bound_divisor - 1,
         under       |-> gas_limit + gas_limit \div bound_divisor < 1]

\* The call of round_block_gas_limit populate_from_parent makes: the gas
\* limit it chose in one of its three branches and the range it passes.
gas_limit_choice(params, header, parent, gas_floor_target, gas_ceil_target) ==
    LET gas_limit == parent.gas_limit
        bound_divisor == params.gas_limit_bound_divisor
        lower_limit == gas_limit_bounds(params, parent).lower_limit
        upper_limit == gas_limit_bounds(params, parent).upper_limit
        ceil == limited_gas_ceil_target(params, header, gas_ceil_target)
    IN  IF gas_limit < gas_floor_target
        THEN [gas_limit   |-> min(gas_floor_target, upper_limit),
              lower_limit |-> lower_limit,
              upper_limit |-> upper_limit]
        ELSE IF gas_limit > ceil
        THEN [gas_limit   |-> max(ceil, lower_limit),
              lower_limit |-> lower_limit,
              upper_limit |-> upper_limit]
        ELSE LET total_lower_limit == max(lower_limit, gas_floor_target)
                 total_upper_limit == min(upper_limit, ceil)
             IN  [gas_limit   |->
                      max(gas_floor_target,
                          min(total_upper_limit,
                              lower_limit + ((header.gas_used * 6) \div 5)
                                                \div bound_divisor)),
                  lower_limit |-> total_lower_limit,
                  upper_limit |-> total_upper_limit]

\* What a call leaves: the header with its difficulty and gas limit set, or
\* a panic, which leaves the header as it was.
Populated(header, difficulty, gas_limit) ==
    [panic |-> "none",
     header |-> [header EXCEPT !.difficulty = difficulty,
                               !.gas_limit = gas_limit]]
Panicked(message, header) == [panic |-> message, header |-> header]

\* Ethash::populate_from_parent.  debug_assertions tells the build: the two
\* debug_assert! lines panic in a debug build and are absent from a release
\* build, which goes on to set the gas limit it computed.
populate_from_parent(params, header, parent, gas_floor_target, gas_ceil_target, debug_assertions) ==
    LET difficulty == calculate_difficulty(params, header, parent)
        bounds == gas_limit_bounds(params, parent)
        choice == gas_limit_choice(params, header, parent,
                                   gas_floor_target, gas_ceil_target)
        gas_limit == round_block_gas_limit(choice.gas_limit,
                                           choice.lower_limit,
                                           choice.upper_limit)
    IN  IF bounds.under
        THEN Panicked("arithmetic operation overflow", header)
        ELSE IF debug_assertions /\ ~(gas_limit >= bounds.lower_limit)
        THEN Panicked("assertion failed: gas_limit >= lower_limit", header)
        ELSE IF debug_assertions /\ ~(gas_limit <= bounds.upper_limit)
        THEN Panicked("assertion failed: gas_limit <= upper_limit", header)
        ELSE Populated(header, difficulty, gas_limit)

\* Ethash::verify_block_family: the number is not zero, the difficulty is
\* the calculated one, the gas limit lies strictly between the parent's
\* minus and plus its share, and from the transition block on it is not
\* both above max_gas_limit and above the parent's.
verify_block_family(params, header, parent) ==
    LET expected_difficulty == calculate_difficulty(params, header, parent)
        gas_limit_divisor == params.gas_limit_bound_divisor
        parent_gas_limit == parent.gas_limit
        min_gas == parent_gas_limit - parent_gas_limit \div gas_limit_divisor
        max_gas == parent_gas_limit + parent_gas_limit \div gas_limit_divisor
    IN  IF header.number = 0 THEN "RidiculousNumber"
        ELSE IF header.difficulty # expected_difficulty
        THEN "InvalidDifficulty"
        ELSE IF header.gas_limit <= min_gas \/ header.gas_limit >= max_gas
        THEN "InvalidGasLimit"
        ELSE IF /\ header.number >= params.max_gas_limit_transition
                /\ header.gas_limit > params.max_gas_limit
                /\ header.gas_limit > parent_gas_limit
        THEN "InvalidGasLimit"
        ELSE "Ok"

\* Parents and the headers opened on them: a parent of number 0 or 1 with
\* any gas limit up to MaxGas, a child one block and one or twenty-five
\* seconds later, not yet populated, with some gas used.
GasTargets == {0, MaxGas \div 2, MaxGas, 2 * MaxGas}
ParentHeaders ==
    {[number |-> n, timestamp |-> 0, difficulty |-> 40, gas_limit |-> g,
      gas_used |-> 0] : n \in {0, 1}, g \in 0..MaxGas}
ChildHeaders(parent) ==
    {[number |-> parent.number + 1, timestamp |-> parent.timestamp + t,
      difficulty |-> 0, gas_limit |-> 0, gas_used |-> u] :
        t \in {1, 25}, u \in {0, MaxGas \div 2, MaxGas}}

\* The engine populates a header from a parent, and when that returned,
\* checks the header it made against the same parent.
PopulateFromParent ==
    /\ vfCall = Nil
    /\ \E params \in EthashParamsSet, parent \in ParentHeaders,
          gas_floor_target \in GasTargets, gas_ceil_target \in GasTargets,
          debug_assertions \in BOOLEAN :
        \E header \in ChildHeaders(parent) :
          LET populated == populate_from_parent(params, header, parent,
                               gas_floor_target, gas_ceil_target,
                               debug_assertions) IN
          vfCall' = Checked("Ethash::populate_from_parent",
                            [params |-> params, header |-> header,
                             parent |-> parent,
                             gas_floor_target |-> gas_floor_target,
                             gas_ceil_target |-> gas_ceil_target,
                             debug_assertions |-> debug_assertions],
                            populated,
                            IF populated.panic = "none"
                            THEN verify_block_family(params, populated.header,
                                                     parent)
                            ELSE "not run")
    /\ UNCHANGED <<reqVars, batchVars, voteVars, lockVars, codecVars, ipfsVars>>

EthashNext == PopulateFromParent

----------------------------------------------------------------------------
(* Specifications *)

InitReq == ReqInit /\ BatchIdle /\ VoteIdle /\ LockIdle /\ CodecIdle /\ VerifyIdle /\ IpfsIdle
NextReq == ReqNext
SpecReq == InitReq /\ [][NextReq]_vars

InitBatch == ReqIdle /\ BatchInit /\ VoteIdle /\ LockIdle /\ CodecIdle /\ VerifyIdle /\ IpfsIdle
NextBatch == BatchNext
SpecBatch == InitBatch /\ [][NextBatch]_vars

\* A batch that was handed to the dispatcher, up to its delivery or its
\* cancellation.  The executor polls a future whose channel was written to
\* or dropped.
InitCancel ==
    /\ ReqIdle /\ VoteIdle /\ LockIdle /\ CodecIdle /\ VerifyIdle /\ IpfsIdle
    /\ PendingInit
NextCancel == Dispatch \/ SupplyResponse \/ Deliver \/ Cancel \/ Await
SpecCancel == InitCancel /\ [][NextCancel]_vars /\ WF_vars(Await)

InitVote == ReqIdle /\ BatchIdle /\ VoteInit /\ LockIdle /\ CodecIdle /\ VerifyIdle /\ IpfsIdle
NextVote == VoteNext
SpecVote == InitVote /\ [][NextVote]_vars

NextVoteOnly == Vote
SpecVoteOnly == InitVote /\ [][NextVoteOnly]_vars

InitLock == ReqIdle /\ BatchIdle /\ LockInit /\ CodecIdle /\ VerifyIdle /\ IpfsIdle
NextLock == LockNext
SpecLock == InitLock /\ [][NextLock]_vars

NextVoteSeal == Vote \/ SealSignatures \/ IsOldOrKnown
SpecVoteSeal == InitVote /\ [][NextVoteSeal]_vars

NextLockAll == LockAllNext
SpecLockAll == InitLock /\ [][NextLockAll]_vars

InitCodec == ReqIdle /\ BatchIdle /\ VoteIdle /\ LockIdle /\ CodecInit /\ VerifyIdle /\ IpfsIdle
NextCodec == CodecNext
SpecCodec == InitCodec /\ [][NextCodec]_vars

InitVerify == ReqIdle /\ BatchIdle /\ VoteIdle /\ LockIdle /\ CodecIdle /\ VerifyIdle /\ IpfsIdle
NextVerify == VerifyNext
SpecVerify == InitVerify /\ [][NextVerify]_vars

NextBuiltin == BuiltinNext
SpecBuiltin == InitVerify /\ [][NextBuiltin]_vars

InitIpfs ==
    /\ ReqIdle /\ BatchIdle /\ VoteIdle /\ LockIdle /\ CodecIdle /\ VerifyIdle
    /\ IpfsInit
NextIpfs == IpfsNext
SpecIpfs == InitIpfs /\ [][NextIpfs]_vars /\ WF_vars(OnResponseWritable)

NextModexp == BuiltinExecute
SpecModexp == InitVerify /\ [][NextModexp]_vars

NextEthash == EthashNext
SpecEthash == InitVerify /\ [][NextEthash]_vars

----------------------------------------------------------------------------
(* Helpers of the properties.                                              *)

\* The kinds of output a field is documented to take: Headers.start takes
\* either, HeaderProof.num is a number, every other field is a hash.
FieldExpects(kind, n) ==
    IF kind = "Headers" THEN {"Hash", "Number"}
    ELSE IF kind = "HeaderProof" THEN {"Number"}
    ELSE {"Hash"}

\* The kinds check_outputs accepts for the back-referenced field n of req:
\* those k for which the check passes when the visitor accepts the field's
\* slot as k only (and every other slot as anything).
CheckedKinds(req, n) ==
    LET all == {<<p[1], p[2], k>> : p \in RefsOf(req), k \in OutputKind}
        slot(k) == {t \in all : t[1] = req[n].req /\ t[2] = req[n].idx /\ t[3] # k}
    IN  {k \in OutputKind : check_outputs(req, all \ slot(k)).ok}

\* The scalar a field of a request of this kind holds for an output.
ScalarOf(kind, out) ==
    IF kind = "Headers"
    THEN (IF out.kind = "Hash" THEN Scalar(HashOrNumberFromHash(out.val))
          ELSE Scalar(HashOrNumberFromNumber(out.val)))
    ELSE Scalar(out.val)

\* The back-referenced fields of a request.
RefFields(req) == {n \in FieldNames(req) : IsBackReference(req[n])}

\* The inputs of a request that are no Field<T>.
PlainNames(req) ==
    CASE req.kind = "Headers"   -> {"skip", "max", "reverse"}
      [] req.kind = "Execution" -> {"from", "action", "gas", "gas_price", "value", "data"}
      [] OTHER                  -> {}

----------------------------------------------------------------------------
(* Properties of the batch (SpecBatch)                                     *)

\* Whether every back-reference of req, offered at index k, names an output
\* an earlier request declared with a kind the field expects.
RefsDeclared(req, k) ==
    \A n \in RefFields(req) :
        /\ req[n].req < k
        /\ req[n].idx \in DOMAIN outputKinds[req[n].req + 1]
        /\ outputKinds[req[n].req + 1][req[n].idx] \in FieldExpects(req.kind, n)

\* C1: an append at index k succeeds iff every back-reference (r, i) of the
\* request has r < k, i declared by request r, and the declared kind is the
\* kind the field expects; otherwise it fails with NoSuchOutput and nothing
\* is appended.
C1_AppendIffRefsDeclared ==
    (phase = "building" /\ lastPush # Nil) =>
        /\ lastPush.result.ok <=> RefsDeclared(lastPush.req, lastPush.at)
        /\ ~lastPush.result.ok => lastPush.result = NoSuchOutput
        /\ lastPush.result.ok =>
              (Len(requests) = lastPush.at + 1 /\ requests[Len(requests)] = lastPush.req)
        /\ ~lastPush.result.ok => Len(requests) = lastPush.at

\* C1 witness: an append of a request holding a back-reference succeeded.
C1_Witness ==
    /\ phase = "building" /\ lastPush # Nil
    /\ lastPush.result.ok
    /\ RefFields(lastPush.req) # {}

\* C2: in every batch state, each back-reference (r, i) still present in
\* the request at index k has r < k, i declared by request r, and the kind
\* expected by the field is the kind declared.
C2_BackReferencesWellFormed ==
    \A k \in 0..(Len(requests) - 1) : RefsDeclared(requests[k + 1], k)

\* C2 witness: after the first request was sent and answered, a later
\* request still holds a back-reference.
C2_Witness ==
    /\ phase = "dispatching"
    /\ 0 \in answered
    /\ \E k \in 1..(Len(requests) - 1) : RefFields(requests[k + 1]) # {}

\* C5: a request is sent only after every response whose output it
\* references (as built) has been folded in, and it carries those outputs.
C5_SentAfterReferencedResponses ==
    phase = "dispatching" =>
        \A k \in 0..(Len(requests) - 1) :
            sent[k + 1] # Nil =>
                \A n \in RefFields(built[k + 1]) :
                    LET f == built[k + 1][n] IN
                    /\ f.req \in answered
                    /\ <<f.req, f.idx>> \in DOMAIN outputs
                    /\ Scalar(sent[k + 1][n]) =
                          ScalarOf(built[k + 1].kind, outputs[<<f.req, f.idx>>])

\* C5 witness: a request built with a back-reference has been sent.
C5_Witness ==
    /\ phase = "dispatching"
    /\ \E k \in 0..(Len(requests) - 1) :
          sent[k + 1] # Nil /\ RefFields(built[k + 1]) # {}

----------------------------------------------------------------------------
(* Properties of one request (SpecReq)                                     *)

\* The answer the last fill's oracle gave for the field n of the request.
AnswerFor(n) == Ask(rqOracle, rqPrev[n].req, rqPrev[n].idx)

\* C3: if the oracle returns, for each back-referenced field, an output of a
\* kind check_outputs accepts for that field, then after fill every such
\* field is a Scalar holding the returned value and complete() succeeds.
C3_FillResolvesCheckedFields ==
    (/\ rqOp = "fill"
     /\ \A n \in RefFields(rqPrev) :
           AnswerFor(n).ok /\ AnswerFor(n).val.kind \in CheckedKinds(rqPrev, n))
    => /\ \A n \in RefFields(rqPrev) :
             rq[n] = ScalarOf(rqPrev.kind, AnswerFor(n).val)
       /\ complete(rq).ok

\* C4: for every kind other than Headers, a back-referenced field that
\* requires a Hash and whose oracle answer is Ok(Output::Number(_)) is left as
\* the same BackReference by fill: a Number is never coerced into a hash.
\* (HeaderProof.num is a Field<u64>: it requires a Number and is left out.)
C4_NumberNeverResolves ==
    (rqOp = "fill" /\ rqPrev.kind # "Headers") =>
        \A n \in RefFields(rqPrev) :
            (/\ FieldExpects(rqPrev.kind, n) = {"Hash"}
             /\ AnswerFor(n).ok /\ AnswerFor(n).val.kind = "Number")
                => rq[n] = rqPrev[n]

\* C6: complete() returns Ok iff every Field of the request is a Scalar; the
\* complete request then carries exactly the scalar values and the unchanged
\* non-field inputs; otherwise complete() fails with NoSuchOutput.
C6_CompleteIffAllScalar ==
    rqOp = "complete" =>
        /\ rqResult.ok <=> (\A n \in FieldNames(rq) : IsScalar(rq[n]))
        /\ ~rqResult.ok => rqResult = NoSuchOutput
        /\ rqResult.ok =>
              /\ rqResult.val.kind = rq.kind
              /\ DOMAIN rqResult.val = DOMAIN rq
              /\ \A n \in FieldNames(rq) : rq[n] = Scalar(rqResult.val[n])
              /\ \A n \in PlainNames(rq) : rqResult.val[n] = rq[n]

\* C6 witness: complete() was refused for a request with one field resolved
\* and another still a back-reference.
C6_Witness ==
    /\ rqOp = "complete"
    /\ ~rqResult.ok
    /\ \E n \in FieldNames(rq) : IsScalar(rq[n])

\* C7: fill_outputs of the response emits each index note_outputs of the
\* request declared exactly once, with an output of the declared kind, and no
\* other index; HeaderProof 0 = hash, Account 0 = code_hash and
\* 1 = storage_root, Storage 0 = value, the other kinds none.
C7_OutputsAsDeclared ==
    rqOp = "outputs" =>
        LET noted == note_outputs(rq) IN
        /\ Len(rsEmitted) = Len(noted)
        /\ \A j, l \in DOMAIN rsEmitted : rsEmitted[j][1] = rsEmitted[l][1] => j = l
        /\ \A j \in DOMAIN rsEmitted :
              \E l \in DOMAIN noted :
                  noted[l][1] = rsEmitted[j][1] /\ noted[l][2] = rsEmitted[j][2].kind
        /\ rsEmitted =
              CASE rs.kind = "HeaderProof" -> << <<0, OutputHash(rs.hash)>> >>
                [] rs.kind = "Account" ->
                     << <<0, OutputHash(rs.code_hash)>>,
                        <<1, OutputHash(rs.storage_root)>> >>
                [] rs.kind = "Storage" -> << <<0, OutputHash(rs.value)>> >>
                [] OTHER -> << >>

\* C7 witness: the outputs of an account response whose code hash and storage
\* root differ were emitted.
C7_Witness ==
    /\ rqOp = "outputs"
    /\ rs.kind = "Account"
    /\ rs.code_hash # rs.storage_root

\* C8: Headers.start is polymorphic: check_outputs succeeds iff the visitor
\* accepts the slot as Hash or as Number; fill turns a Hash output into
\* Scalar(HashOrNumber::Hash), a Number output into
\* Scalar(HashOrNumber::Number), and leaves the BackReference on an error.
C8_HeadersStartPolymorphic ==
    /\ (rqOp = "check" /\ rq.kind = "Headers" /\ IsBackReference(rq.start)) =>
          (rqResult.ok <=>
              \E k \in OutputKind : <<rq.start.req, rq.start.idx, k>> \in rqAccept)
    /\ (rqOp = "fill" /\ rqPrev.kind = "Headers" /\ IsBackReference(rqPrev.start)) =>
          LET a == AnswerFor("start") IN
          /\ (a.ok /\ a.val.kind = "Hash") =>
                rq.start = Scalar([tag |-> "Hash", val |-> a.val.val])
          /\ (a.ok /\ a.val.kind = "Number") =>
                rq.start = Scalar([tag |-> "Number", val |-> a.val.val])
          /\ ~a.ok => rq.start = rqPrev.start
          /\ \A n \in PlainNames(rq) : rq[n] = rqPrev[n]

\* C8 witness: a Headers request whose start referred to a Number output was
\* filled.
C8_Witness ==
    /\ rqOp = "fill" /\ rqPrev.kind = "Headers" /\ IsBackReference(rqPrev.start)
    /\ AnswerFor("start").ok /\ AnswerFor("start").val.kind = "Number"
    /\ IsScalar(rq.start)

----------------------------------------------------------------------------
(* The vote collector's properties. *)

\* The last call is a vote, of a message not yet seen in its round.
VoteOfUnseen ==
    /\ lastCall # Nil /\ lastCall.op = "vote"
    /\ ~(/\ lastCall.message.round \in DOMAIN lastCall.before
         /\ lastCall.message \in lastCall.before[lastCall.message.round].messages)

\* The last vote left the counts of its round as they were.
CountsUnchanged ==
    /\ count_round_votes(votes, lastCall.message.round)
          = count_round_votes(lastCall.before, lastCall.message.round)
    /\ \A h \in OptHashes :
          count_aligned_votes(votes, [lastCall.message EXCEPT !.block_hash = h])
             = count_aligned_votes(lastCall.before,
                                   [lastCall.message EXCEPT !.block_hash = h])

\* The last vote was recorded as a vote of its voter.
VoteRecorded ==
    /\ get(votes, lastCall.message) = lastCall.voter
    /\ count_round_votes(votes, lastCall.message.round)
          = count_round_votes(lastCall.before, lastCall.message.round) + 1
    /\ count_aligned_votes(votes, lastCall.message)
          = count_aligned_votes(lastCall.before, lastCall.message) + 1

\* C9 as stated: the first message an address submits in a round returns
\* None and is kept; every later submission by that address of a message not
\* yet seen in the round returns Some(address) and leaves the counts of the
\* round unchanged.
C9_DoubleVoteAfterAnySubmission ==
    (lastCall # Nil /\ lastCall.op = "vote") =>
        LET r == lastCall.message.round
            a == lastCall.voter
            submittedBefore == \E f \in BOOLEAN : <<r, a, f>> \in lastCall.earlier
        IN  /\ ~submittedBefore =>
                /\ lastCall.ret = None
                /\ lastCall.message \in votes[r].messages
            /\ (submittedBefore /\ VoteOfUnseen) =>
                /\ lastCall.ret = a
                /\ CountsUnchanged

\* C9 amended: the first message not yet seen in its round that an address
\* submits returns None and is recorded as that address's vote; every later
\* submission by that address of a message not yet seen in the round returns
\* Some(address), and the message is not recorded as a vote (the counts of
\* the round are unchanged).  Submissions of seen messages do not count.
C9_DoubleVoteAfterRecordedVote ==
    VoteOfUnseen =>
        LET r == lastCall.message.round
            a == lastCall.voter
        IN  IF <<r, a, TRUE>> \in lastCall.earlier
            THEN /\ lastCall.ret = a
                 /\ CountsUnchanged
                 /\ get(votes, lastCall.message) = None
            ELSE /\ lastCall.ret = None
                 /\ VoteRecorded

\* A second unseen message of a recorded voter has been reported.
C9_Witness ==
    /\ VoteOfUnseen
    /\ lastCall.ret = lastCall.voter
    /\ <<lastCall.message.round, lastCall.voter, TRUE>> \in lastCall.earlier
    /\ count_round_votes(votes, lastCall.message.round) = 1

\* The signatures recorded for block hash h at round r, as get reports them.
SignaturesRecorded(vs, r, h) ==
    {s \in Signatures :
        get(vs, [round |-> r, block_hash |-> h, signature |-> s]) # None}

\* C10: seal_signatures(p, c, h) returns Some iff a signature is recorded
\* for h at round p and one for h at round c; the proposal returned is a
\* signature recorded for h at p, and the votes returned are exactly the
\* signatures recorded for h at c, each once.
C10_SealIsProposalAndCommits ==
    (lastCall # Nil /\ lastCall.op = "seal_signatures") =>
        LET proposals == SignaturesRecorded(lastCall.before,
                             lastCall.proposal_round, lastCall.block_hash)
            commits == SignaturesRecorded(lastCall.before,
                             lastCall.commit_round, lastCall.block_hash)
            seal == lastCall.ret
        IN  /\ (seal # NoSeal) <=> (proposals # {} /\ commits # {})
            /\ seal # NoSeal =>
                /\ seal.proposal \in proposals
                /\ {seal.votes[i] : i \in DOMAIN seal.votes} = commits
                /\ Len(seal.votes) = Cardinality(commits)

\* A seal of two commit signatures whose proposal comes from an earlier
\* round has been returned.
C10_Witness ==
    /\ lastCall # Nil /\ lastCall.op = "seal_signatures"
    /\ lastCall.ret # NoSeal
    /\ Len(lastCall.ret.votes) = 2
    /\ lastCall.proposal_round < lastCall.commit_round


\* C11: seal_signatures prunes only on success: when it returns Some, the
\* rounds kept afterwards are exactly the rounds kept before that are not
\* older than commit_round, each with unchanged content; when it returns
\* None the round map is what it was before the call.
C11_SealPrunesOnlyOnSuccess ==
    (lastCall # Nil /\ lastCall.op = "seal_signatures") =>
        IF lastCall.ret # NoSeal
        THEN /\ DOMAIN votes =
                  {r \in DOMAIN lastCall.before : r >= lastCall.commit_round}
             /\ \A r \in DOMAIN votes : votes[r] = lastCall.before[r]
        ELSE votes = lastCall.before

\* A successful seal that removed an older round and kept the commit round.
C11_Witness ==
    /\ lastCall # Nil /\ lastCall.op = "seal_signatures"
    /\ lastCall.ret # NoSeal
    /\ \E r \in DOMAIN lastCall.before : r < lastCall.commit_round
    /\ lastCall.commit_round \in DOMAIN votes


----------------------------------------------------------------------------
(* Properties of the collector's lock (SpecLock) *)

\* C12: in seal_signatures the shared guard is dropped before the exclusive
\* one is requested: no thread waits for the exclusive guard while it holds
\* a shared one, and whenever a call is under way some call under way can
\* take its next step (seal_signatures, vote and throw_out_old never block
\* one another for good).
C12_ReadDroppedBeforeWrite ==
    /\ \A t \in DOMAIN pc : pc[t].at \in WriteWaits => readers[t] = 0
    /\ (\E t \in DOMAIN pc : pc[t] # Idle) => ENABLED LockProgress

\* A seal_signatures call waits for the exclusive guard of its pruning
\* while another thread holds a guard on the round map.
C12_Witness ==
    \E t, u \in DOMAIN pc :
        /\ t # u
        /\ pc[t].at = "seal_signatures_write"
        /\ readers[t] = 0
        /\ (readers[u] > 0 \/ u \in writers)

----------------------------------------------------------------------------
(* More properties of the vote collector (SpecVote, SpecVoteOnly) *)

\* The round map of tests::remove_old before its throw_out_old(&7): the
\* dummy round 0 and the rounds 6, 3, 7, 8, 1 voted in.
RemoveOldRounds == [r \in {0, 1, 3, 6, 7, 8} |-> StepCollectorDefault]

\* C13: after throw_out_old(x) the rounds kept are exactly the rounds kept
\* before that are >= x, each with unchanged voters, votes and messages;
\* after votes in rounds 0, 1, 3, 6, 7, 8, throw_out_old(7) leaves 2 rounds.
C13_ThrowOutOldKeepsNewer ==
    /\ (lastCall # Nil /\ lastCall.op = "throw_out_old") =>
          /\ DOMAIN votes =
                {r \in DOMAIN lastCall.before : r >= lastCall.vote_round}
          /\ \A r \in DOMAIN votes : votes[r] = lastCall.before[r]
    /\ Cardinality(DOMAIN throw_out_old(RemoveOldRounds, 7)) = 2

\* throw_out_old removed an older round and kept a round holding a vote.
C13_Witness ==
    /\ lastCall # Nil /\ lastCall.op = "throw_out_old"
    /\ \E r \in DOMAIN lastCall.before : r < lastCall.vote_round
    /\ \E r \in DOMAIN votes : count_round_votes(votes, r) > 0

\* The last call is a vote of a message already seen in its round.
VoteOfSeen ==
    /\ lastCall # Nil /\ lastCall.op = "vote"
    /\ lastCall.message.round \in DOMAIN lastCall.before
    /\ lastCall.message \in lastCall.before[lastCall.message.round].messages

\* C14: a vote whose message is already in the seen set of its round
\* returns None and leaves the collector (voters, signature maps, messages,
\* hence every count) as it was, whatever the address.
C14_SeenVoteIsIdempotent ==
    VoteOfSeen =>
        /\ lastCall.ret = None
        /\ votes = lastCall.before
        /\ CountsUnchanged

\* A seen message has been voted again by an address that has a vote of its
\* own in the round, other than the address recorded for the message.
C14_Witness ==
    /\ VoteOfSeen
    /\ lastCall.voter \in lastCall.before[lastCall.message.round].voted
    /\ get(lastCall.before, lastCall.message) # lastCall.voter

\* C15: every round keeps at most one message per signer.  An address that
\* has had a message of its own kept for the round (its first unseen one)
\* and submits another unseen message gets no second message kept: neither
\* in the seen-message set nor in a signature map of the round.
C15_OneMessagePerSigner ==
    (/\ VoteOfUnseen
     /\ <<lastCall.message.round, lastCall.voter, TRUE>> \in lastCall.earlier)
    => /\ lastCall.message \notin votes[lastCall.message.round].messages
       /\ get(votes, lastCall.message) = None

\* The part of C15 that is about the signature maps alone.
OneVotePerSigner ==
    \A r \in DOMAIN votes : \A a \in Voters :
        Cardinality({<<h, s>> \in OptHashes \X Signatures :
            get(votes, [round |-> r, block_hash |-> h, signature |-> s]) = a}) <= 1

\* C16: a vote for a round that is not newer than the oldest round kept
\* leaves the collector unchanged (so a pruned round never reappears).
C16_OldVoteIsIgnored ==
    (/\ lastCall # Nil /\ lastCall.op = "vote"
     /\ DOMAIN lastCall.before # {}
     /\ \A r \in DOMAIN lastCall.before : lastCall.message.round <= r)
    => votes = lastCall.before

----------------------------------------------------------------------------
(* Properties of the wire codec.                                           *)

\* The decoder has run on the encoding of the value itself.
DecodedOwnEncoding == cdOp = "decode" /\ cdWire = Codec_encode(cdValue)

\* The value is a response that carries a proof with at least one item.
HasProofItems ==
    /\ cdValue.type \in {"Response", "ResponseBody"}
    /\ cdValue.val.kind \in {"HeaderProof", "Account", "Storage"}
    /\ cdValue.val.proof # << >>

\* C17: decoding the encoding of a value gives the value back, for every
\* request, response, incomplete request, Field, HashOrNumber and list of
\* requests nested in [n, list].
C17_RoundTrip == DecodedOwnEncoding => cdResult = Ok(cdValue.val)

\* The round trip of every value but a response with a non-empty proof.
RoundTripWithoutProofItems ==
    (DecodedOwnEncoding /\ ~HasProofItems) => cdResult = Ok(cdValue.val)

\* A response with a non-empty proof does not decode from its own encoding.
ProofItemsAreRejected ==
    (DecodedOwnEncoding /\ HasProofItems) => ~cdResult.ok

\* The ids of the eight kinds on the wire.
WireTags == {0, 1, 3, 4, 5, 6, 7, 8}

\* The decoder of a Request or a Response has run on a list whose first
\* item is a number.
DecodedTagged ==
    /\ cdOp = "decode" /\ cdValue.type \in {"Request", "Response"}
    /\ cdWire.is_list /\ cdWire.items # << >>
    /\ decode_uint(cdWire.items[1], 1).ok

\* The number in the first item of the list decoded.
WireTag == decode_uint(cdWire.items[1], 1).val

\* C18: the kind tag of a request or response decodes exactly for 0, 1, 3,
\* 4, 5, 6, 7 and 8; the tag 2 and every tag from 9 on fail with the
\* unknown-id error; the encoder writes the tag of the value's own variant,
\* which is one of the eight; and a decoded value has the variant named by
\* its tag.
C18_KindTag ==
    /\ DecodedTagged =>
          /\ WireTag \in WireTags => cdResult # DecoderError("Unknown PIP request ID.")
          /\ WireTag \notin WireTags => cdResult = DecoderError("Unknown PIP request ID.")
          /\ cdResult.ok => KindId(cdResult.val.kind) = WireTag
    /\ (cdOp = "encode" /\ cdValue.type \in {"Request", "Response"}) =>
          /\ cdWire.items[1] = encode_uint(KindId(cdValue.val.kind))
          /\ KindId(cdValue.val.kind) \in WireTags

\* A request with the tag 2 in place of its own was decoded and refused.
C18_Witness ==
    /\ DecodedTagged /\ cdValue.type = "Request" /\ WireTag = 2
    /\ cdResult = DecoderError("Unknown PIP request ID.")

\* The decoder of a Field<T> has run on a list whose first item is a number.
DecodedField ==
    /\ cdOp = "decode" /\ cdValue.type = "Field"
    /\ cdWire.is_list /\ cdWire.items # << >>
    /\ decode_uint(cdWire.items[1], 1).ok

\* C19: a Field<T> is written as a list of two items, 0 and the scalar, or
\* 1 and the list [req_idx, out_idx]; read with the discriminant 0 it is a
\* Scalar, with 1 the BackReference of the two indices, and with any other
\* discriminant the read fails with the unknown-discriminant error.
C19_FieldShape ==
    /\ (cdOp = "encode" /\ cdValue.type = "Field") =>
          /\ cdWire.is_list /\ Len(cdWire.items) = 2
          /\ IsScalar(cdValue.val) =>
                /\ cdWire.items[1] = encode_uint(0)
                /\ cdWire.items[2] = encode_val(cdValue.T, cdValue.val.val)
          /\ IsBackReference(cdValue.val) =>
                /\ cdWire.items[1] = encode_uint(1)
                /\ cdWire.items[2] = RlpList(<<encode_uint(cdValue.val.req),
                                               encode_uint(cdValue.val.idx)>>)
    /\ DecodedField =>
          /\ WireTag \notin {0, 1} =>
                cdResult = DecoderError("Unknown discriminant for PIP field.")
          /\ (WireTag = 0 /\ cdResult.ok) =>
                /\ IsScalar(cdResult.val)
                /\ cdWire.items[2] = encode_val(cdValue.T, cdResult.val.val)
          /\ (WireTag = 1 /\ cdResult.ok) =>
                /\ IsBackReference(cdResult.val)
                /\ cdWire.items[2].items[1] = encode_uint(cdResult.val.req)
                /\ cdWire.items[2].items[2] = encode_uint(cdResult.val.idx)
          /\ (WireTag \in {0, 1} /\ cdWire = Codec_encode(cdValue)) => cdResult.ok

\* A back-reference was written and read back as the same back-reference.
BackReferenceReadBack ==
    /\ DecodedField /\ IsBackReference(cdValue.val)
    /\ cdWire = Codec_encode(cdValue) /\ WireTag = 1
    /\ cdResult = Ok(cdValue.val)

\* A field with a discriminant other than 0 and 1 was refused.
C19_Witness ==
    /\ DecodedField /\ WireTag = 2
    /\ cdResult = DecoderError("Unknown discriminant for PIP field.")

\* The encoding of the value with its second item, a list, made longer or
\* shorter: the struct of a request, the pair of a back-reference.
SecondLonger ==
    RlpList([Codec_encode(cdValue).items EXCEPT ![2] = Longer(Codec_encode(cdValue).items[2])])
SecondShorter ==
    RlpList([Codec_encode(cdValue).items EXCEPT ![2] = Shorter(Codec_encode(cdValue).items[2])])

\* The value is one whose encoding is a list of two items with a list of a
\* fixed number of items as the second: a request, a back-reference.
HasInnerList ==
    \/ cdValue.type = "Request"
    \/ cdValue.type = "Field" /\ IsBackReference(cdValue.val)

\* The decoder of a Request, a Response or a Field<T> has run on the
\* encoding of the value with one item more than its arity, in the outer
\* list or in the inner one.
DecodedLonger ==
    /\ cdOp = "decode" /\ cdValue.type \in {"Request", "Response", "Field"}
    /\ \/ cdWire = Longer(Codec_encode(cdValue))
       \/ HasInnerList /\ cdWire = SecondLonger

\* The same with one item fewer than its arity.
DecodedShorter ==
    /\ cdOp = "decode" /\ cdValue.type \in {"Request", "Response", "Field"}
    /\ \/ cdWire = Shorter(Codec_encode(cdValue))
       \/ HasInnerList /\ cdWire = SecondShorter

\* C20: decoding a Request, a Response, a Field<T> or a back-reference pair
\* from a list with more or fewer items than its arity fails.
C20_StrictArity == (DecodedLonger \/ DecodedShorter) => ~cdResult.ok

\* A list with fewer items than the arity is refused.
FewerItemsAreRejected == DecodedShorter => ~cdResult.ok

\* A list with more items than the arity is read as if the items beyond the
\* arity were not there.
MoreItemsAreIgnored == DecodedLonger => cdResult = Codec_decode(cdValue, Codec_encode(cdValue))

----------------------------------------------------------------------------
(* Properties of the errors.                                               *)

\* check_outputs or complete has returned an error.
ReturnedNoSuchOutput == rqOp \in {"check", "complete"} /\ ~rqResult.ok

\* C21: a NoSuchOutput error of check_outputs or complete carries the
\* (req_idx, out_idx) of a back-reference of the request that could not be
\* matched or resolved.
C21_ErrorNamesReference ==
    ReturnedNoSuchOutput =>
        /\ {"req_idx", "out_idx"} \subseteq DOMAIN rqResult
        /\ <<rqResult.req_idx, rqResult.out_idx>> \in RefsOf(rq)

\* The error is the same value whatever the request and its back-references.
ErrorIsOneValue == ReturnedNoSuchOutput => rqResult = NoSuchOutput

----------------------------------------------------------------------------
(* Properties of the verifiers.                                            *)

\* What the state with a root holds for an address, and the nodes on the
\* way from the root to it (a proof of it).
StateOf(root, address) ==
    CASE root = sha3(RootA) /\ address = "a1" -> [at |-> "account", account |-> Account1]
      [] root = sha3(RootA) /\ address = "a4" -> [at |-> "undecodable"]
      [] root = sha3(RootB) /\ address = "a1" -> [at |-> "account", account |-> Account2]
      [] OTHER -> [at |-> "none"]
ProofOf(root, address) ==
    CASE root = sha3(RootA) /\ address \in {"a1"} -> {RootA, BranchA, LeafA1}
      [] root = sha3(RootA) /\ address \in {"a2"} -> {RootA, BranchA}
      [] root = sha3(RootA) /\ address \in {"a3", "a4"} -> {RootA, LeafA4}
      [] root = sha3(RootB) /\ address \in {"a1", "a2"} -> {RootB, LeafB1}
      [] root = sha3(RootB) /\ address \in {"a3", "a4"} -> {RootB}

AccountChecked == vfCall # Nil /\ vfCall.op = "Account::check_response"
AccountState == StateOf(vfCall.req.header.state_root, vfCall.req.address)
AccountProof == ProofOf(vfCall.req.header.state_root, vfCall.req.address)

\* Account::check_response returns the account of the address in the state
\* of the header, or None when the state has none, exactly when the proof
\* holds every node on the way to it and the leaf found is an account; it
\* returns an error otherwise.
AccountOutcomes ==
    AccountChecked =>
        /\ (AccountProof \subseteq vfCall.response /\ AccountState.at = "account")
              => vfCall.result = Ok(OptSome(AccountState.account))
        /\ (AccountProof \subseteq vfCall.response /\ AccountState.at = "none")
              => vfCall.result = Ok(OptNone)
        /\ (AccountProof \subseteq vfCall.response /\ AccountState.at = "undecodable")
              => ~vfCall.result.ok
        /\ ~(AccountProof \subseteq vfCall.response) => ~vfCall.result.ok

\* C22: Account.check_response has three outcomes: Ok(Some(account)) for
\* a leaf found, Ok(None) for a proven absence, and BadProof for a missing
\* node (any node of a valid proof left out), an undecodable leaf or a
\* root that is not in the proof.
C22_AccountThreeOutcomes ==
    /\ AccountOutcomes
    /\ (AccountChecked /\ ~vfCall.result.ok) =>
            vfCall.result = VerifyError("BadProof", << >>)

\* The errors Account::check_response returns: Error::Trie for a missing
\* node or root, Error::Decoder for a leaf that is no account.
AccountErrorVariants ==
    (AccountChecked /\ ~vfCall.result.ok) =>
        IF AccountProof \subseteq vfCall.response
        THEN vfCall.result.err.variant = "Decoder"
        ELSE /\ vfCall.result.err.variant = "Trie"
             /\ vfCall.result.err.args[1] =
                    IF vfCall.req.header.state_root.sha3 \in vfCall.response
                    THEN "IncompleteDatabase" ELSE "InvalidStateRoot"

\* The verifiers that compare one recomputed value with the one expected.
HashChecks == {"HeaderByHash::check_response", "Code::check_response",
               "BlockReceipts::check_response"}
HashChecked == vfCall # Nil /\ vfCall.op \in HashChecks

\* What such a verifier recomputes from the response, what the request
\* expects, and the error of a mismatch.
Recomputed(done) ==
    IF done.op = "BlockReceipts::check_response"
    THEN ordered_trie_root(EncodedReceipts(done.response))
    ELSE sha3(done.response)
Expected(done) ==
    CASE done.op = "HeaderByHash::check_response"  -> done.req.hash
      [] done.op = "Code::check_response"          -> done.req.code_hash
      [] done.op = "BlockReceipts::check_response" -> done.req.header.receipts_root
MismatchOf(done) ==
    VerifyError(IF done.op = "BlockReceipts::check_response" THEN "WrongTrieRoot"
                ELSE "WrongHash",
                <<Expected(done), Recomputed(done)>>)

\* C23: HeaderByHash, Code and BlockReceipts accept exactly when the value
\* recomputed from the response equals the one expected, hand an accepted
\* response back as it came, and on a mismatch return WrongHash or
\* WrongTrieRoot with (expected, found).
C23_AcceptIffEqual ==
    HashChecked =>
        /\ vfCall.result.ok <=> (Recomputed(vfCall) = Expected(vfCall))
        /\ vfCall.result.ok => vfCall.result.val = vfCall.response
        /\ ~vfCall.result.ok => vfCall.result = MismatchOf(vfCall)

\* C23 as the code has it: HeaderByHash and BlockReceipts hand the accepted
\* response back, Code returns () and leaves the code with the caller.
C23_AcceptIffEqualCodeUnit ==
    HashChecked =>
        /\ vfCall.result.ok <=> (Recomputed(vfCall) = Expected(vfCall))
        /\ vfCall.result.ok =>
              vfCall.result.val = IF vfCall.op = "Code::check_response" THEN Unit
                                  ELSE vfCall.response
        /\ ~vfCall.result.ok => vfCall.result = MismatchOf(vfCall)

\* Code that is not empty has been accepted.
C23_Witness ==
    /\ vfCall # Nil
    /\ vfCall.op = "Code::check_response"
    /\ vfCall.result.ok
    /\ vfCall.response # << >>

BodyChecked == vfCall # Nil /\ vfCall.op = "Body::check_response"

\* The root of the transactions received and the hash of the uncles
\* received, and whether the header has the same.
BodyTxRoot     == ordered_trie_root(vfCall.response[1])
BodyUnclesHash == sha3(vfCall.response[2])
BodyTxMatch     == BodyTxRoot = vfCall.req.header.transactions_root
BodyUnclesMatch == BodyUnclesHash = vfCall.req.header.uncles_hash

\* C24: Body.check_response returns Ok exactly when the root of the
\* transactions and the hash of the uncle list both equal the header's; a
\* mismatch of the transactions is WrongTrieRoot(header's, computed) whatever
\* the uncles are, a mismatch of the uncles alone is WrongHash(header's,
\* computed), and the block returned is the header followed by the body.
C24_BodyOutcomes ==
    BodyChecked =>
        /\ vfCall.result.ok <=> (BodyTxMatch /\ BodyUnclesMatch)
        /\ ~BodyTxMatch =>
              vfCall.result = VerifyError("WrongTrieRoot",
                                  <<vfCall.req.header.transactions_root, BodyTxRoot>>)
        /\ (BodyTxMatch /\ ~BodyUnclesMatch) =>
              vfCall.result = VerifyError("WrongHash",
                                  <<vfCall.req.header.uncles_hash, BodyUnclesHash>>)
        /\ vfCall.result.ok =>
              vfCall.result.val = <<vfCall.req.header>> \o <<vfCall.response>>

\* A body of which neither the transactions nor the uncles are the
\* header's has been rejected.
C24_Witness == BodyChecked /\ ~BodyTxMatch /\ ~BodyUnclesMatch /\ ~vfCall.result.ok

\* A body has been accepted that holds transactions and an uncle.
BodyAccepted ==
    BodyChecked /\ vfCall.result.ok /\ vfCall.response[1] # << >>
                /\ vfCall.response[2] # << >>

HeaderProofMade    == vfCall # Nil /\ vfCall.op = "HeaderProof::new"
HeaderProofChecked == vfCall # Nil /\ vfCall.op = "HeaderProof::check_response"

\* The proof holds the root of the CHT expected and, under the number of
\* the block in it, a leaf of this hash and total difficulty.
ValidInclusion(proof, num, cht_root, hash, td) ==
    /\ cht_root.sha3 \in proof
    /\ num \in DOMAIN cht_root.sha3.children
    /\ cht_root.sha3.children[num] = sha3(Leaf(<< >>, ChtValue(hash, td)))
    /\ Leaf(<< >>, ChtValue(hash, td)) \in proof

\* C25: HeaderProof::new returns None exactly for the number 0 and else a
\* request whose cht_num is the CHT that covers the number; check_response
\* returns Ok((hash, total difficulty)) exactly when the proof is a valid
\* proof of both for the block under the root of the request, and
\* ResultErr(BadProof) in every other case.
C25_HeaderProof ==
    /\ HeaderProofMade =>
          /\ ~vfCall.result.some <=> (vfCall.req.num = 0)
          /\ vfCall.result.some =>
                /\ vfCall.result.val.num = vfCall.req.num
                /\ vfCall.result.val.cht_root = vfCall.req.cht_root
                /\ vfCall.req.num > vfCall.result.val.cht_num * ChtSize
                /\ vfCall.req.num <= (vfCall.result.val.cht_num + 1) * ChtSize
    /\ HeaderProofChecked =>
          /\ \A n \in 1..MaxBlock :
                (vfCall.result = Ok(<<BlockHash(n), TotalDifficulty(n)>>))
                <=> ValidInclusion(vfCall.response, vfCall.req.num, vfCall.req.cht_root,
                                   BlockHash(n), TotalDifficulty(n))
          /\ vfCall.result.ok =>
                vfCall.result.val = <<BlockHash(vfCall.req.num),
                                      TotalDifficulty(vfCall.req.num)>>
          /\ ~vfCall.result.ok => vfCall.result = VerifyError("BadProof", << >>)

\* A proof has been accepted for the second block of the second CHT.
C25_Witness ==
    /\ HeaderProofChecked
    /\ vfCall.result.ok
    /\ vfCall.req.cht_num = 1
    /\ vfCall.req.num = ChtSize + 2

\* Rejected: a proof under the root of another CHT, a proof that lacks the
\* leaf, and a proof whose leaf is no pair.
ProofOfOtherCht ==
    /\ HeaderProofChecked /\ ~vfCall.result.ok
    /\ vfCall.req.cht_root.sha3 \in vfCall.response
    /\ vfCall.req.cht_root # sha3(ChtTrie(vfCall.req.cht_num))
    /\ ChtLeaf(vfCall.req.num) \in vfCall.response
ProofWithoutLeaf ==
    /\ HeaderProofChecked /\ ~vfCall.result.ok
    /\ vfCall.req.cht_root = sha3(ChtTrie(vfCall.req.cht_num))
    /\ vfCall.response = {ChtTrie(vfCall.req.cht_num)}
ProofOfBadLeaf ==
    /\ HeaderProofChecked /\ ~vfCall.result.ok
    /\ vfCall.req.num = 1
    /\ vfCall.req.cht_root = sha3(ChtBadTrie)
    /\ {ChtBadTrie, ChtBadLeaf} \subseteq vfCall.response

ExecutionChecked ==
    vfCall # Nil /\ vfCall.op = "TransactionProof::check_response"
ExecutionAsked == vfCall # Nil /\ vfCall.op \in {"call", "estimate_gas"}

\* The witness holds every node on the way to the account of the sender.
WitnessComplete(done) ==
    ProofOf(done.req.header.state_root, done.req.tx.sender) \subseteq done.response

\* The balance of the sender in the state of the header.
BalanceOf(done) ==
    IF StateOf(done.req.header.state_root, done.req.tx.sender).at = "account"
    THEN StateOf(done.req.header.state_root, done.req.tx.sender).account.balance
    ELSE 0

\* C26: of the outcomes of an execution proof only a witness that lacks a
\* node is a verification that failed; an error of the execution itself is
\* handed on as the result of the execution, and call and estimate_gas
\* report it as an execution error and not as a proof that failed.
C26_ExecutionErrorsPassThrough ==
    /\ ExecutionChecked =>
          /\ (vfCall.result = ProvedBadProof) <=> ~WitnessComplete(vfCall)
          /\ (WitnessComplete(vfCall) /\ BalanceOf(vfCall) < vfCall.req.tx.value) =>
                vfCall.result = ProvedFailed([error |-> "NotEnoughCash",
                                              required |-> vfCall.req.tx.value,
                                              got |-> BalanceOf(vfCall)])
          /\ (WitnessComplete(vfCall) /\ BalanceOf(vfCall) >= vfCall.req.tx.value) =>
                vfCall.result = ProvedComplete(Executed(vfCall.req.tx))
    /\ ExecutionAsked =>
          /\ (vfCall.result = Pending) <=> ~WitnessComplete(vfCall)
          /\ (WitnessComplete(vfCall) /\ BalanceOf(vfCall) < vfCall.req.tx.value) =>
                vfCall.result =
                    ResultErr([code |-> "EXECUTION_ERROR",
                               data |-> [error |-> "NotEnoughCash",
                                         required |-> vfCall.req.tx.value,
                                         got |-> BalanceOf(vfCall)]])
          /\ (WitnessComplete(vfCall) /\ BalanceOf(vfCall) >= vfCall.req.tx.value) =>
                vfCall.result =
                    Ok(IF vfCall.op = "call" THEN <<vfCall.req.tx.value>>
                       ELSE IF vfCall.req.tx.value = 0 THEN 21 ELSE 24)

\* call has reported that a sender with an account has not the value to
\* send.
C26_Witness ==
    /\ vfCall # Nil
    /\ vfCall.op = "call"
    /\ BalanceOf(vfCall) > 0
    /\ vfCall.result # Pending
    /\ ~vfCall.result.ok

\* estimate_gas has returned the gas of an execution.
GasEstimated == vfCall # Nil /\ vfCall.op = "estimate_gas" /\ vfCall.result = Ok(24)

----------------------------------------------------------------------------
(* Properties of the cancellation (SpecCancel)                              *)

\* Nothing is left of the batch.
BatchStateDropped ==
    /\ requests = << >> /\ built = << >> /\ outputKinds = << >>
    /\ outputs = << >> /\ sent = << >> /\ answered = {}

\* A pending batch can be cancelled whatever was sent and answered so far.
CancelAlwaysPossible == phase = "dispatching" => ENABLED Cancel

\* The step that cancels leaves nothing of the batch.
CancelDropsAll ==
    [][(phase = "dispatching" /\ phase' = "cancelled") => BatchStateDropped']_vars

\* The caller of a cancelled batch observes the error and nothing else.
CancelledObservesError ==
    (phase = "cancelled" /\ awaited.tag = "Observed") =>
        awaited.result = errors_internal("on-demand sender prematurely cancelled", "")

\* C27: a pending batch can be cancelled at any time before its responses
\* are delivered; the cancellation removes the whole state of the batch in
\* one step; and the caller that awaits the batch then observes the error
\* of a premature cancellation: it gets no value and does not wait for ever.
C27_CancelObserved ==
    /\ []CancelAlwaysPossible
    /\ CancelDropsAll
    /\ []CancelledObservesError
    /\ (phase = "cancelled") ~>
          (awaited = Observed(errors_internal("on-demand sender prematurely cancelled",
                                              "")))

\* The caller has observed the cancellation of a batch.
C27_Witness ==
    /\ phase = "cancelled"
    /\ awaited.tag = "Observed"
    /\ ~awaited.result.ok

\* The caller has observed the outputs of a batch that was not cancelled.
BatchObserved ==
    /\ phase = "delivered"
    /\ awaited.tag = "Observed"
    /\ awaited.result.ok

----------------------------------------------------------------------------
(* Properties of the built-ins (SpecBuiltin)                               *)

CostAsked == vfCall # Nil /\ vfCall.op = "Builtin::cost"

\* The three lengths at the head of the input, the bytes beyond its end
\* being zero.
LengthAt(k) ==
    LET byte(p) == IF p <= Len(vfCall.response) THEN vfCall.response[p] ELSE 0
        RECURSIVE value(_)
        value(n) == IF n = 0 THEN 0 ELSE 256 * value(n - 1) + byte(k * WordLen + n)
    IN  value(WordLen)
BaseLen == LengthAt(0)
ExpLen  == LengthAt(1)
ModLen  == LengthAt(2)
LongerLen == IF ModLen >= BaseLen THEN ModLen ELSE BaseLen
Square    == LongerLen * LongerLen
Product   == Square * (IF ExpLen >= 1 THEN ExpLen ELSE 1)

\* The divisor in use: the one configured, or the default for zero.
DivisorUsed ==
    IF vfCall.req.pricing.divisor = 0 THEN 10 ELSE vfCall.req.pricing.divisor

\* C28: the cost of modexp for the lengths read from the zero-extended
\* input is floor(max(mod_len, base_len)^2 * max(exp_len, 1) / divisor), and
\* the largest value of the word when the square or the product overflows
\* it; a configured divisor of 0 is replaced by 10, so that no cost divides
\* by zero.
C28_ModexpCost ==
    CostAsked =>
        /\ DivisorUsed > 0
        /\ vfCall.result =
              IF Square > U256_max_value THEN U256_max_value
              ELSE IF Product > U256_max_value THEN U256_max_value
              ELSE Product \div DivisorUsed

\* A cost has been computed with the default in place of a divisor of 0,
\* from an input shorter than its three lengths.
C28_Witness ==
    /\ CostAsked
    /\ vfCall.req.pricing.divisor = 0
    /\ Len(vfCall.response) < 3 * WordLen
    /\ Product <= U256_max_value
    /\ vfCall.result > 0

\* Costs that saturate: for the square, and for the product alone.
SquareSaturates == CostAsked /\ Square > U256_max_value
ProductSaturates ==
    CostAsked /\ Square <= U256_max_value /\ Square > 0 /\ Product > U256_max_value

----------------------------------------------------------------------------
(* Properties of the collector's lock with is_old_or_known (SpecLockAll)   *)

\* The places where a thread waits for a guard.
LockWaits == WriteWaits \cup {"seal_signatures_read", "is_known_read", "is_old_read"}

\* A call is under way and no call under way can take its next step.
LockStuck ==
    /\ \E t \in DOMAIN pc : pc[t] # Idle
    /\ ~ENABLED (LockProgress \/ IsOldOrKnownProgress)

\* C29: every interleaving of vote, throw_out_old, seal_signatures and
\* is_old_or_known ends: no thread waits for a guard while it holds one,
\* and whenever a call is under way some call under way can take its next
\* step, also for a lock that prefers waiting writers.
C29_NoGuardHeldOnRequest ==
    /\ \A t \in DOMAIN pc :
          pc[t].at \in LockWaits => (readers[t] = 0 /\ t \notin writers)
    /\ ~LockStuck

\* Only the right operand of is_old_or_known requests the lock with a
\* guard held, and the calls block for good only on a lock that prefers
\* waiting writers, with an is_old_or_known that holds a guard among them.
OnlyIsOldOrKnownHoldsOnRequest ==
    /\ \A t \in DOMAIN pc :
          (pc[t].at \in LockWaits /\ (readers[t] > 0 \/ t \in writers))
          => pc[t].at = "is_old_read"
    /\ LockStuck =>
          /\ writerPriority
          /\ \E t \in DOMAIN pc : pc[t].at = "is_old_read" /\ readers[t] > 0

\* An is_old_or_known that dropped the guard of its left operand waits for
\* the guard of the right one while another thread waits to write.
IsOldWaitsWithoutGuard ==
    \E t, u \in DOMAIN pc :
        /\ pc[t].at = "is_old_read" /\ readers[t] = 0
        /\ pc[u].at \in WriteWaits

\* is_old_or_known has returned true for a known message of a round after
\* the oldest, and false for a message not seen of such a round.
KnownReturned ==
    /\ lastCall # Nil /\ lastCall.op = "is_old_or_known"
    /\ lastCall.ret /\ lastCall.message.round > 0
    /\ \A t \in DOMAIN pc : pc[t] = Idle
NewReturned ==
    lastCall # Nil /\ lastCall.op = "is_old_or_known" /\ ~lastCall.ret

----------------------------------------------------------------------------
(* Properties of a failed append (SpecBatch)                               *)

\* The step is an append that fails.
AppendFails ==
    /\ phase = "building"
    /\ lastPush' # lastPush
    /\ lastPush' # Nil
    /\ ~lastPush'.result.ok

\* C30: an append that fails with NoSuchOutput leaves the batch as it was:
\* neither the requests nor the declared outputs gain an entry, so that the
\* index of the next request and every output declared before are the same
\* as before the call.
C30_FailedAppendChangesNothing ==
    [][AppendFails =>
          /\ lastPush'.result = NoSuchOutput
          /\ requests' = requests
          /\ outputKinds' = outputKinds
          /\ outputs' = outputs
          /\ lastPush'.at = Len(requests')]_vars

\* An append to a batch of one request has failed.
C30_Witness ==
    /\ phase = "building"
    /\ lastPush # Nil
    /\ ~lastPush.result.ok
    /\ Len(requests) = 1
    /\ Len(outputKinds) = 1

\* A request is appended after an append that failed, at the index the
\* failed one would have had.
AppendedAfterFailure ==
    [][(phase = "building" /\ lastPush = Nil /\ lastPush' # Nil /\ lastPush'.result.ok)
          => (lastPush'.at = Len(requests) /\ Len(requests') = Len(requests) + 1)]_vars

----------------------------------------------------------------------------
(* Properties of fill as a change of the request (SpecReq)                 *)

\* Field n of the request was resolved by the last fill.
ResolvedByFill(n) ==
    rqOp = "fill" /\ IsBackReference(rqPrev[n]) /\ IsScalar(rq[n])

\* C31: fill changes only the fields that are a BackReference before the
\* call: the variant, the inputs that are no Field and the Scalar fields are
\* as before, a field that is still a BackReference holds the same
\* (req_idx, out_idx), no Scalar becomes a BackReference, and a second fill
\* with the same oracle gives the request of the first.
C31_FillChangesOnlyBackReferences ==
    rqOp = "fill" =>
        /\ DOMAIN rq = DOMAIN rqPrev
        /\ rq.kind = rqPrev.kind
        /\ \A n \in PlainNames(rqPrev) : rq[n] = rqPrev[n]
        /\ \A n \in FieldNames(rqPrev) :
              /\ IsScalar(rqPrev[n]) => rq[n] = rqPrev[n]
              /\ IsBackReference(rq[n]) =>
                    /\ IsBackReference(rqPrev[n])
                    /\ rq[n].req = rqPrev[n].req
                    /\ rq[n].idx = rqPrev[n].idx
        /\ fill(rq, rqOracle) = rq

\* A fill of a storage request left its scalar block_hash alone, resolved
\* address_hash and could not resolve key_hash.
C31_Witness ==
    /\ rqOp = "fill"
    /\ rq.kind = "Storage"
    /\ IsScalar(rqPrev.block_hash)
    /\ ResolvedByFill("address_hash")
    /\ IsBackReference(rq.key_hash)

\* A fill of an execution request resolved block_hash next to six inputs
\* that are no Field.
ExecutionFilled ==
    /\ rqOp = "fill"
    /\ rq.kind = "Execution"
    /\ ResolvedByFill("block_hash")
    /\ rq.action = "Create" /\ rq.value = 1

----------------------------------------------------------------------------
(* The outputs check_outputs visits and fill asks for (SpecReq)            *)

\* Every (req_idx, out_idx) a visitor or an oracle may be called with.
AllPairs == {<<r, i>> : r \in ReqIdxs, i \in OutIdxs}

\* The visitor that answers Ok to every call but those for the pair p.
RefusingOnly(p) ==
    {<<q[1], q[2], k>> : q \in AllPairs \ {p}, k \in OutputKind}

\* The oracle that answers NoSuchOutput to every call but the one for the
\* pair p, which it answers with a.
AnsweringOnly(p, a) == [q \in {p} |-> a]

\* The pairs check_outputs calls its visitor with, when every call is
\* answered Ok: those whose refusal makes the check fail.
VisitedBy(req) == {p \in AllPairs : ~check_outputs(req, RefusingOnly(p)).ok}

\* The pairs fill calls its oracle with: those whose answer the filled
\* request depends on.
AskedBy(req) ==
    {p \in AllPairs :
        \E a \in OracleAnswers : fill(req, AnsweringOnly(p, a)) # fill(req, << >>)}

\* C32: the (req_idx, out_idx) pairs fill passes to the oracle are the pairs
\* a passing check_outputs visits on the same request: after a check that
\* passed, a fill would ask for the pairs that were visited, and a fill has
\* asked for no pair that a check of the request before it does not visit.
C32_FillAsksWhatCheckVisits ==
    /\ (rqOp = "check" /\ rqResult.ok) =>
            /\ AskedBy(rq) = VisitedBy(rq)
            /\ VisitedBy(rq) = RefsOf(rq)
    /\ rqOp = "fill" =>
            /\ AskedBy(rqPrev) = VisitedBy(rqPrev)
            /\ \A n \in FieldNames(rq) :
                  ResolvedByFill(n) =>
                      <<rqPrev[n].req, rqPrev[n].idx>> \in VisitedBy(rqPrev)

\* An account request with two different back-references has been filled,
\* both resolved.
C32_Witness ==
    /\ rqOp = "fill"
    /\ rq.kind = "Account"
    /\ ResolvedByFill("block_hash")
    /\ ResolvedByFill("address_hash")
    /\ Cardinality(VisitedBy(rqPrev)) = 2

\* A check of a request with two different back-references has passed.
CheckPassedOnTwo ==
    /\ rqOp = "check" /\ rqResult.ok
    /\ Cardinality(VisitedBy(rq)) = 2

\* A check fails only on a refused visit, of a pair a passing check visits.
FailedCheckVisitsFewer ==
    (rqOp = "check" /\ ~rqResult.ok) =>
        /\ RefsOf(rq) # {}
        /\ \E p \in VisitedBy(rq) : \E k \in OutputKind : <<p[1], p[2], k>> \notin rqAccept

----------------------------------------------------------------------------
(* The kinds of the declared outputs (SpecBatch)                           *)

\* The output indices a request of the kind declares.
DeclaredIdxs(kind) ==
    CASE kind = "HeaderProof" -> {0}
      [] kind = "Account"     -> {0, 1}
      [] kind = "Storage"     -> {0}
      [] OTHER                -> {}

\* The last append offered a header proof whose num is a back-reference.
HeaderProofByReference ==
    /\ phase = "building" /\ lastPush # Nil
    /\ lastPush.req.kind = "HeaderProof"
    /\ IsBackReference(lastPush.req.num)

\* Request k of the batch was appended as a Headers request whose start is
\* a back-reference.
HeadersByReference(k) ==
    built[k].kind = "Headers" /\ IsBackReference(built[k].start)

\* C33: every output a request declares through note_outputs is a Hash
\* (HeaderProof 0; Account 0 and 1; Storage 0) and so is every delivered
\* output, while HeaderProof.num is checked as a Number: the builder rejects
\* with NoSuchOutput every HeaderProof whose num is a back-reference, and a
\* back-referenced Headers.start is validated against a Hash and filled and
\* sent as a hash.
C33_OnlyHashOutputs ==
    /\ \A k \in DOMAIN outputKinds :
          /\ DOMAIN outputKinds[k] = DeclaredIdxs(built[k].kind)
          /\ \A i \in DOMAIN outputKinds[k] : outputKinds[k][i] = "Hash"
    /\ \A p \in DOMAIN outputs : outputs[p].kind = "Hash"
    /\ HeaderProofByReference => lastPush.result = NoSuchOutput
    /\ \A k \in DOMAIN built :
          HeadersByReference(k) =>
              /\ outputKinds[built[k].start.req + 1][built[k].start.idx] = "Hash"
              /\ IsScalar(requests[k].start) => requests[k].start.val.tag = "Hash"
              /\ (sent # << >> /\ sent[k] # Nil) => sent[k].start.tag = "Hash"

\* A header proof whose num refers to the output of the header proof before
\* it was offered and rejected.
C33_Witness ==
    /\ HeaderProofByReference
    /\ Len(requests) = 1 /\ requests[1].kind = "HeaderProof"
    /\ lastPush.req.num = BackReference(0, 0)
    /\ ~lastPush.result.ok

\* A Headers request whose start refers to a proved hash was sent.
HeadersSentWithHash ==
    /\ phase = "dispatching"
    /\ Len(built) = 2 /\ HeadersByReference(2)
    /\ sent[2] # Nil

----------------------------------------------------------------------------
(* A seal asked for twice (SpecVote)                                       *)

\* The last call is a seal_signatures that repeats, with nothing in
\* between, a seal_signatures with the same arguments that returned a seal.
SealRepeated ==
    /\ lastCall # Nil
    /\ lastCall.op = "seal_signatures"
    /\ lastCall.first # NoSeal

\* The signatures of a sequence of signatures.
SignatureSet(q) == {q[i] : i \in DOMAIN q}

\* C34: a seal_signatures(p, c, h) that repeats a successful one returns
\* None when p < c, round p having been thrown out by the first; when
\* p >= c it returns a seal again, round p holds what it held, the proposal
\* is one of its signatures for h and the votes are the same set.
C34_SealRepeated ==
    SealRepeated =>
        IF lastCall.proposal_round < lastCall.commit_round
        THEN /\ lastCall.ret = NoSeal
             /\ lastCall.proposal_round \notin DOMAIN lastCall.before
             /\ votes = lastCall.before
        ELSE /\ lastCall.ret # NoSeal
             /\ votes = lastCall.before
             /\ lastCall.proposal_round \in DOMAIN votes
             /\ lastCall.first.proposal \in
                    ProposalSignatures(votes, lastCall.proposal_round,
                                       lastCall.block_hash)
             /\ lastCall.ret.proposal \in
                    ProposalSignatures(votes, lastCall.proposal_round,
                                       lastCall.block_hash)
             /\ SignatureSet(lastCall.ret.votes) = SignatureSet(lastCall.first.votes)

\* A seal with the proposal round before the commit round was asked for
\* again after it was returned.
C34_Witness ==
    /\ SealRepeated
    /\ lastCall.proposal_round < lastCall.commit_round
    /\ lastCall.ret = NoSeal

\* A seal with the proposal round at the commit round was returned twice.
SealReturnedTwice ==
    /\ SealRepeated
    /\ lastCall.proposal_round = lastCall.commit_round
    /\ lastCall.ret # NoSeal

\* A seal with the proposal round after the commit round was returned twice.
SealReturnedTwiceLater ==
    /\ SealRepeated
    /\ lastCall.proposal_round > lastCall.commit_round
    /\ lastCall.ret # NoSeal

----------------------------------------------------------------------------
(* The counts and the senders the collector keeps (SpecVote)               *)

\* The sum over the block hashes S of count_aligned_votes for round r.
RECURSIVE AlignedSum(_, _, _)
AlignedSum(vs, r, S) ==
    IF S = {} THEN 0
    ELSE LET h == CHOOSE x \in S : TRUE IN
         count_aligned_votes(vs, [round |-> r, block_hash |-> h, signature |-> "s1"])
            + AlignedSum(vs, r, S \ {h})

\* For every kept round the recorded votes are as many as the addresses
\* recorded as having voted in it.
CountsAreVoters ==
    \A r \in DOMAIN votes :
        /\ count_round_votes(votes, r) = Cardinality(votes[r].voted)
        /\ count_round_votes(votes, r) = AlignedSum(votes, r, OptHashes)

\* The last call is a vote.
Voted == lastCall # Nil /\ lastCall.op = "vote"

\* The message of the last vote had not been seen in its round.
VotedUnseen ==
    ~(/\ lastCall.message.round \in DOMAIN lastCall.before
      /\ lastCall.message \in lastCall.before[lastCall.message.round].messages)

\* The voter of the last vote had a vote recorded in the round already.
VoterHadVoted ==
    /\ lastCall.message.round \in DOMAIN lastCall.before
    /\ lastCall.voter \in lastCall.before[lastCall.message.round].voted

\* C35 as stated: the counts of every kept round are the number of its
\* voters, and get(message) returns the address supplied with the first
\* vote that carried the message.
C35_GetReturnsFirstVoter ==
    /\ CountsAreVoters
    /\ (Voted /\ VotedUnseen) => get(votes, lastCall.message) = lastCall.voter

\* C35, amended: the counts of every kept round are the number of its
\* voters; get(message) returns the address supplied with the first vote
\* that carried the message when that vote was recorded, and None when that
\* vote was a double vote; a later vote with the message and every other
\* call leave it as it is in the rounds that are kept.
C35_GetReturnsFirstRecordedVoter ==
    /\ CountsAreVoters
    /\ Voted =>
          /\ (VotedUnseen /\ ~VoterHadVoted) =>
                 get(votes, lastCall.message) = lastCall.voter
          /\ (VotedUnseen /\ VoterHadVoted) =>
                 /\ get(votes, lastCall.message) = None
                 /\ lastCall.ret = lastCall.voter
          /\ ~VotedUnseen =>
                 get(votes, lastCall.message) = get(lastCall.before, lastCall.message)
          /\ \A m \in Messages \ {lastCall.message} :
                 get(votes, m) = get(lastCall.before, m)
    /\ (lastCall # Nil /\ lastCall.op \in {"throw_out_old", "seal_signatures"}) =>
          \A m \in Messages :
              get(votes, m) = IF m.round \in DOMAIN votes
                              THEN get(lastCall.before, m) ELSE None

\* A second address has voted in a round, with a message not seen before,
\* and is the one get returns for the message.
C35_Witness ==
    /\ Voted /\ VotedUnseen /\ ~VoterHadVoted
    /\ get(votes, lastCall.message) = lastCall.voter
    /\ count_round_votes(votes, lastCall.message.round) = 2

\* A message first carried by a double vote is then voted by another
\* address: get returns no address for it.
SeenAfterDoubleVote ==
    /\ Voted /\ ~VotedUnseen
    /\ lastCall.voter \notin votes[lastCall.message.round].voted
    /\ get(votes, lastCall.message) = None

----------------------------------------------------------------------------
(* The round map under vote and seal_signatures (SpecVoteSeal)             *)

\* The last call is an is_old_or_known.
AskedOldOrKnown == lastCall # Nil /\ lastCall.op = "is_old_or_known"

\* C36: from the default collector, after any vote and seal_signatures
\* calls the round map is not empty: a seal is returned only when the
\* commit round holds votes, and that round is kept; so is_old_or_known
\* finds an oldest round every time, and reports a message that is not
\* known as old exactly when its round is not after that round.
C36_RoundMapNeverEmpty ==
    /\ DOMAIN votes # {}
    /\ (lastCall # Nil /\ lastCall.op = "seal_signatures" /\ lastCall.ret # NoSeal) =>
          /\ lastCall.commit_round \in DOMAIN votes
          /\ count_round_votes(votes, lastCall.commit_round) > 0
    /\ AskedOldOrKnown =>
          /\ lastCall.oldest.some
          /\ lastCall.ret =
                (lastCall.known \/ lastCall.message.round <= lastCall.oldest.val)

\* is_old_or_known is asked after a seal has thrown out the dummy round.
C36_Witness ==
    /\ AskedOldOrKnown
    /\ 0 \notin DOMAIN votes
    /\ lastCall.oldest.some /\ lastCall.oldest.val = 1
    /\ lastCall.ret

\* is_old_or_known has answered that a message is neither old nor known.
NeitherOldNorKnown == AskedOldOrKnown /\ ~lastCall.ret

----------------------------------------------------------------------------
(* Properties of the written response (SpecIpfs)                           *)

\* The transport holds the first ipProgress bytes of the response.
WrittenInOrder ==
    /\ ipProgress = Len(ipTransport)
    /\ ipProgress <= Len(ipOut)
    /\ ipTransport = SubSeq(ipOut, 1, ipProgress)

\* The last write accepted all it was offered, or failed.
WroteAllOrFailed ==
    \/ ~ipWritten.result.ok
    \/ ipWritten.result.val = ipWritten.offered

\* The last write accepted no byte of a chunk that had some, or failed.
AcceptedNothing ==
    /\ ipWritten # Nil
    /\ \/ ~ipWritten.result.ok
       \/ (ipWritten.result.val = 0 /\ ipWritten.offered > 0)

\* The response is written and the connection ended.
WrittenCompletely ==
    ipNext = "end" /\ ipTransport = ipOut /\ ipProgress = Len(ipOut)

\* After every call: the connection is ended exactly when the write
\* accepted the whole remaining chunk or failed; a failed write leaves the
\* progress where it was.
EndsWhenDone ==
    ipWritten # Nil =>
        /\ (ipNext = "end") = WroteAllOrFailed
        /\ ipNext \in {"write", "end"}
        /\ (ipNext = "end" /\ ipWritten.result.ok) => WrittenCompletely

\* C37: across the write_chunk calls on one response, from progress 0, the
\* transport has accepted exactly the first progress bytes of the data, in
\* order; progress never exceeds the length of the data; a call ends the
\* connection exactly when the write accepted the whole remaining chunk or
\* failed, and asks to be called again otherwise; and the response is
\* eventually written completely unless some write accepts no byte.
C37_WriteChunk ==
    /\ [](WrittenInOrder /\ EndsWhenDone)
    /\ <>(WrittenCompletely \/ AcceptedNothing)

\* A response of three bytes was written in more than one call.
C37_Witness ==
    /\ WrittenCompletely
    /\ Len(ipOut) = 3
    /\ ipWritten.result.ok
    /\ ipWritten.offered < 3
    /\ ipWritten.offered > 0

\* A write failed after part of the response was written.
FailedPartWay ==
    /\ ipNext = "end"
    /\ ipWritten # Nil /\ ~ipWritten.result.ok
    /\ ipProgress > 0 /\ ipProgress < Len(ipOut)

\* A write accepted nothing and the handler asked to be called again.
AskedAgainAfterNothing ==
    /\ ipNext = "write"
    /\ ipWritten # Nil /\ ipWritten.result.ok /\ ipWritten.result.val = 0

----------------------------------------------------------------------------
(* Properties of the modexp built-in (SpecModexp)                          *)

\* The last call is an execute of the modexp built-in.
Executing == vfCall # Nil /\ vfCall.op = "Builtin::execute"

\* The lengths and the numbers of the input of the last call.
ModLenOf  == read_len(vfCall.response, 2)
BaseOf    == from_bytes_be(vfCall.response, 3 * WordLen, read_len(vfCall.response, 0))
ExponentOf ==
    from_bytes_be(vfCall.response, 3 * WordLen + read_len(vfCall.response, 0),
                  read_len(vfCall.response, 1))
ModulusOf ==
    from_bytes_be(vfCall.response,
                  3 * WordLen + read_len(vfCall.response, 0) + read_len(vfCall.response, 1),
                  ModLenOf)

\* b to the power e, modulo m, for m >= 1.
SquareOf(x) == x * x
RECURSIVE PowerMod(_, _, _)
PowerMod(b, e, m) ==
    IF e = 0 THEN 1 % m
    ELSE (SquareOf(PowerMod(b, e \div 2, m)) * (IF e % 2 = 1 THEN b % m ELSE 1)) % m

\* The number n as len bytes, big-endian, left-padded with zeros.
Padded(n, len) == LenWord(n, len)

\* C38: for a modulus of at least 2 given with mod_len >= 1, the built-in
\* writes (base ^ exponent) mod modulus as mod_len big-endian bytes,
\* left-padded with zeros; for a modulus of 0 or 1 and an exponent that is
\* not zero it writes zero; with mod_len = 0 it writes nothing.
C38_ModexpValue ==
    Executing =>
        /\ (ModLenOf >= 1 /\ ModulusOf >= 2) =>
              vfCall.result.output = Padded(PowerMod(BaseOf, ExponentOf, ModulusOf), ModLenOf)
        /\ (ModLenOf >= 1 /\ ModulusOf <= 1 /\ ExponentOf # 0) =>
              vfCall.result.output = Padded(0, ModLenOf)
        /\ ModLenOf = 0 => ~vfCall.result.written

\* The same, but for a base that is not zero and is a multiple of the
\* modulus, with an exponent that is not zero.
ModexpValueUnlessMultiple ==
    (Executing /\ ~(BaseOf # 0 /\ ExponentOf # 0 /\ ModulusOf >= 2
                    /\ BaseOf % ModulusOf = 0)) => C38_ModexpValue

\* A base that is a multiple of the modulus gives one where the power is
\* zero.
MultipleGivesOne ==
    /\ Executing
    /\ ModLenOf >= 1 /\ ModulusOf >= 2
    /\ BaseOf # 0 /\ BaseOf % ModulusOf = 0 /\ ExponentOf # 0
    /\ vfCall.result.output = Padded(1, ModLenOf)

\* A power that is neither 0 nor 1 was written.
PowerWritten ==
    /\ Executing
    /\ ModLenOf >= 1 /\ ModulusOf >= 2 /\ ExponentOf >= 2
    /\ vfCall.result.written
    /\ vfCall.result.output = Padded(2, ModLenOf)

----------------------------------------------------------------------------
(* C39, C40: the gas limit populate_from_parent sets                       *)

Populating == vfCall # Nil /\ vfCall.op = "Ethash::populate_from_parent"
BoundsOfCall == gas_limit_bounds(vfCall.req.params, vfCall.req.parent)
ChoiceOfCall ==
    gas_limit_choice(vfCall.req.params, vfCall.req.header, vfCall.req.parent,
                     vfCall.req.gas_floor_target, vfCall.req.gas_ceil_target)
RoundedOfCall ==
    round_block_gas_limit(ChoiceOfCall.gas_limit, ChoiceOfCall.lower_limit,
                          ChoiceOfCall.upper_limit)
FloorBelowCeil == vfCall.req.gas_floor_target <= vfCall.req.gas_ceil_target
ParentShare ==
    vfCall.req.parent.gas_limit \div vfCall.req.params.gas_limit_bound_divisor

\* The call returned and set a gas limit between the two protocol limits,
\* which were computed without underflow.
GasLimitWithinLimits ==
    /\ ~BoundsOfCall.under
    /\ vfCall.response.panic = "none"
    /\ BoundsOfCall.lower_limit <= vfCall.response.header.gas_limit
    /\ vfCall.response.header.gas_limit <= BoundsOfCall.upper_limit

\* Rounding was handed a gas limit of the range it was handed, and returned
\* one of that range.
RoundingKeepsRange ==
    /\ ChoiceOfCall.lower_limit <= ChoiceOfCall.gas_limit
    /\ ChoiceOfCall.gas_limit <= ChoiceOfCall.upper_limit
    /\ ChoiceOfCall.lower_limit <= RoundedOfCall
    /\ RoundedOfCall <= ChoiceOfCall.upper_limit

LimitsCrossOfSmallParent ==
    Populating /\ ParentShare = 0
        => \/ BoundsOfCall.under /\ vfCall.req.parent.gas_limit = 0
           \/ BoundsOfCall.lower_limit > BoundsOfCall.upper_limit

UpperLimitUnderflows ==
    /\ Populating /\ FloorBelowCeil
    /\ vfCall.req.parent.gas_limit = 0
    /\ vfCall.response.panic = "arithmetic operation overflow"
LowerAssertionFails ==
    /\ Populating /\ FloorBelowCeil
    /\ vfCall.req.parent.gas_limit = MaxGas \div 30
    /\ vfCall.req.params.gas_limit_bound_divisor = 8
    /\ vfCall.req.gas_floor_target = MaxGas
    /\ vfCall.response.panic = "assertion failed: gas_limit >= lower_limit"
ReleaseSetsGasLimitOutsideLimits ==
    /\ Populating /\ FloorBelowCeil
    /\ ~vfCall.req.debug_assertions
    /\ vfCall.response.panic = "none"
    /\ vfCall.response.header.gas_limit < BoundsOfCall.lower_limit
RoundedToMultiple ==
    /\ Populating /\ FloorBelowCeil /\ ParentShare >= 1
    /\ vfCall.response.panic = "none"
    /\ vfCall.response.header.gas_limit % PARITY_GAS_LIMIT_DETERMINANT = 0
    /\ vfCall.response.header.gas_limit # ChoiceOfCall.gas_limit
    /\ vfCall.response.header.gas_limit > 0

\* C40: a header of number >= 1 whose difficulty and gas limit were set by
\* populate_from_parent is accepted by verify_block_family against the
\* same parent, for every parent gas limit and every pair of targets, also
\* from max_gas_limit_transition on with a target above max_gas_limit.
C40_PopulatedHeaderAccepted ==
    Populating /\ vfCall.req.header.number >= 1
               /\ vfCall.response.panic = "none"
        => vfCall.result = "Ok"

\* The family check's last condition refuses the gas limit that was set.
OverMaxGasLimit ==
    /\ vfCall.req.header.number >= vfCall.req.params.max_gas_limit_transition
    /\ vfCall.response.header.gas_limit > vfCall.req.params.max_gas_limit
    /\ vfCall.response.header.gas_limit > vfCall.req.parent.gas_limit

\* What holds of the code: a populated header on a parent gas limit of at
\* least the divisor is accepted unless its gas limit is above max_gas_limit
\* and above the parent's from the transition on; the difficulty is never
\* the reason.
PopulatedHeaderAcceptedUnlessOverMax ==
    Populating /\ vfCall.response.panic = "none"
        => /\ vfCall.result # "InvalidDifficulty"
           /\ vfCall.result # "RidiculousNumber"
           /\ ParentShare >= 1 /\ ~OverMaxGasLimit => vfCall.result = "Ok"
           /\ ParentShare >= 1 /\ OverMaxGasLimit
                 => vfCall.result = "InvalidGasLimit"

\* Before the transition, or without one, every populated header on such a
\* parent is accepted.
PopulatedHeaderAcceptedBeforeTransition ==
    Populating /\ vfCall.response.panic = "none" /\ ParentShare >= 1
               /\ vfCall.req.header.number
                     < vfCall.req.params.max_gas_limit_transition
        => vfCall.result = "Ok"

FloorTargetOverMaxRejected ==
    /\ Populating /\ vfCall.response.panic = "none" /\ ParentShare >= 1
    /\ vfCall.req.parent.gas_limit = vfCall.req.params.max_gas_limit
    /\ vfCall.req.gas_floor_target > vfCall.req.params.max_gas_limit
    /\ vfCall.req.gas_ceil_target > vfCall.req.params.max_gas_limit
    /\ vfCall.result = "InvalidGasLimit"
RoundedOverMaxRejected ==
    /\ Populating /\ vfCall.response.panic = "none" /\ ParentShare >= 1
    /\ vfCall.req.gas_floor_target <= vfCall.req.params.max_gas_limit
    /\ ChoiceOfCall.gas_limit <= vfCall.req.parent.gas_limit
    /\ vfCall.result = "InvalidGasLimit"
AcceptedAfterTransition ==
    /\ Populating /\ vfCall.response.panic = "none"
    /\ vfCall.req.header.number >= vfCall.req.params.max_gas_limit_transition
    /\ vfCall.req.gas_ceil_target > vfCall.req.params.max_gas_limit
    /\ vfCall.result = "Ok"
SmallParentRejected ==
    /\ Populating /\ vfCall.response.panic = "none" /\ ParentShare = 0
    /\ vfCall.result = "InvalidGasLimit"
=============================================================================
